---- MODULE Spec2Model ----
(***************************************************************************)
(* Theme Variable Name Resolution & Reconciliation Engine.                 *)
(*                                                                         *)
(* Two programs of the repository are modelled:                            *)
(*   - src/code.js            the theme mapper (theme parser, name         *)
(*                            resolvers, local / library reconciliation);  *)
(*   - src/unnamed/part_000   the opacity generator (alpha parser and the  *)
(*                            alpha-derivation reconciliation).            *)
(*                                                                         *)
(* Names are sequences of one-character strings, so that the conversions   *)
(* of the code (replace, split, trim, indexOf, localeCompare) are computed *)
(* character by character.                                                 *)
(*                                                                         *)
(* Specifications:                                                         *)
(*   SpecAlpha   handleVariableCreation of part_000                        *)
(*   SpecTheme   the create-variables request of code.js                   *)
(*   SpecParse   extractThemeVariables of code.js                          *)
(***************************************************************************)
EXTENDS Naturals, Integers, Sequences, FiniteSets, TLC

VARIABLES
    store,        \* the host's local variables: <<collection id, name>> -> mode id -> value
    colls,        \* the host's local collections: id -> [modes, defaultModeId]
    localOrder,   \* order in which getLocalVariables() lists the collections
    request,      \* the message being handled (or NoRequest)
    outbox,       \* messages posted to the UI, in order
    trace,        \* history of the last request: external calls made, items processed
    pc,           \* code.js: where the create-variables request stands
    collectionsLoaded,   \* code.js: var collectionsLoaded
    uploadedJsonData,    \* code.js: var uploadedJsonData
    batch,        \* code.js: the arrays and maps one request threads through its callbacks
    cssContent,   \* the text handed to the theme parser
    themeVariables,      \* what the theme parser returned for it
    plugin,       \* which of the two plugins runs: part_000 or code.js
    call,         \* a function of the plugins called on its own: its name and arguments
    returned,     \* what that call returned
    later,        \* code.js: a create-variables message received while another is in flight
    clientStorage,   \* figma.clientStorage: the value under "importedVariableIds", the writes in flight
    loading,      \* code.js: where loadCollections stands, library collection by library collection
    cleanup       \* code.js: where the close-plugin message and its cleanup stand

(***************************************************************************)
(* Strings                                                                 *)
(***************************************************************************)

\* The characters used by the model, in UTF-16 code unit order.
Alphabet ==
    << " ", "-", "/", "0", "1", "2", "3", "4", "5", "6", "7", "8", "9",
       "B", "W", "_", "a", "b", "c", "d", "e", "f", "h", "i", "k", "l", "n", "o",
       "p", "r", "s", "t", "u", "w", "x", "y", "z" >>

CharCode(c) == CHOOSE i \in 1..Len(Alphabet) : Alphabet[i] = c

Min2(m, n) == IF m <= n THEN m ELSE n

\* a.localeCompare(b): negative, zero or positive. The characters of the model
\* compare by code unit; no verdict below rests on the relative order of
\* punctuation, digits and letters, on which collations differ.
RECURSIVE LocaleCompare(_, _)
LocaleCompare(s, t) ==
    IF s = <<>> /\ t = <<>> THEN 0
    ELSE IF s = <<>> THEN -1
    ELSE IF t = <<>> THEN 1
    ELSE IF CharCode(Head(s)) < CharCode(Head(t)) THEN -1
    ELSE IF CharCode(Head(s)) > CharCode(Head(t)) THEN 1
    ELSE LocaleCompare(Tail(s), Tail(t))

DigitChars == << "0", "1", "2", "3", "4", "5", "6", "7", "8", "9" >>

\* Number -> decimal string, as string concatenation and template literals do.
RECURSIVE NumberToString(_)
NumberToString(n) ==
    IF n < 10 THEN << DigitChars[n + 1] >>
    ELSE NumberToString(n \div 10) \o << DigitChars[(n % 10) + 1] >>

Front(s) == SubSeq(s, 1, Len(s) - 1)
Last(s) == s[Len(s)]

\* s.indexOf(p) === 0
StartsWith(s, p) == Len(p) <= Len(s) /\ SubSeq(s, 1, Len(p)) = p

EndsWith(s, p) == Len(p) <= Len(s) /\ SubSeq(s, Len(s) - Len(p) + 1, Len(s)) = p

\* s.replace(/c/g, d) for single characters c and d
ReplaceChar(s, c, d) == [ i \in 1..Len(s) |-> IF s[i] = c THEN d ELSE s[i] ]

\* s.toLowerCase()
LowerChar(c) ==
    CASE c = "B" -> "b" [] c = "W" -> "w" [] c = "L" -> "l" [] c = "D" -> "d"
      [] OTHER -> c
ToLowerCase(s) == [ i \in 1..Len(s) |-> LowerChar(s[i]) ]

\* s.split("/").pop(): what follows the last slash
RECURSIVE LastSegment(_)
LastSegment(s) ==
    IF s = <<>> THEN <<>>
    ELSE IF Last(s) = "/" THEN <<>>
    ELSE Append(LastSegment(Front(s)), Last(s))

\* s.split("/").length
SegmentCount(s) == Cardinality({ i \in 1..Len(s) : s[i] = "/" }) + 1

\* s.trim()
RECURSIVE TrimLeft(_)
TrimLeft(s) == IF s # <<>> /\ Head(s) = " " THEN TrimLeft(Tail(s)) ELSE s
RECURSIVE TrimRight(_)
TrimRight(s) == IF s # <<>> /\ Last(s) = " " THEN TrimRight(Front(s)) ELSE s
Trim(s) == TrimRight(TrimLeft(s))

ColorSlash == << "c", "o", "l", "o", "r", "/" >>

\* s.replace(/^color\//, "")
StripColorPrefix(s) ==
    IF StartsWith(s, ColorSlash) THEN SubSeq(s, Len(ColorSlash) + 1, Len(s)) ELSE s

\* s.replace(/_100$/, "")
Strip100(s) ==
    IF EndsWith(s, << "_", "1", "0", "0" >>) THEN SubSeq(s, 1, Len(s) - 4) ELSE s

(***************************************************************************)
(* Values shared by the two programs                                       *)
(***************************************************************************)

Null == [kind |-> "null"]

\* No function is called on its own
NoCall == [fn |-> "none"]

\* clientStorage with no value under the key, no write in flight and no write
\* rejected so far, a
\* loadCollections and a cleanup that have not been asked for
EmptyStorage == [ids |-> <<>>, writes |-> {}, rejected |-> FALSE]
NotLoading == [pc |-> "none"]
NoCleanup == [pc |-> "none"]

\* The two plugins of the repository
OpacityGenerator == "part_000"
ThemeMapper == "code.js"
            \* null / undefined
NoRequest == [type |-> "none"]

\* No second request, no load, no cleanup, nothing stored
NothingElse ==
    /\ later = NoRequest /\ clientStorage = EmptyStorage
    /\ loading = NotLoading /\ cleanup = NoCleanup
NoResults == [kind |-> "no results"] \* a message without a results field

BoundedSeq(S, n) == UNION { [1..k -> S] : k \in 0..n }

RECURSIVE Flatten(_)
Flatten(ss) == IF ss = <<>> THEN <<>> ELSE Head(ss) \o Flatten(Tail(ss))

Range(s) == { s[i] : i \in 1..Len(s) }

\* A COLOR value {r, g, b, a}: rgb stands for the three channels, a is kept as
\* the numerator of opacityPercent / 100.
ColorValue(rgb, a) == [kind |-> "color", rgb |-> rgb, a |-> a]
AliasValue(id) == [kind |-> "alias", id |-> id]

\* A local variable of the host: its resolvedType and its valuesByMode.
Variable(type, valuesByMode) == [resolvedType |-> type, valuesByMode |-> valuesByMode]

EmptyMap == [x \in {} |-> Null]

\* A collection with the given modes (a sequence of [modeId, name]).
Collection(modes) == [modes |-> modes, defaultModeId |-> modes[1].modeId]
Mode(id, name) == [modeId |-> id, name |-> name]

\* figma.variables.getLocalVariables(): the ids of all local variables,
\* collection by collection in the host's order.
LocalVariableIds == { id \in DOMAIN store : id[1] \in DOMAIN colls }

\* new Map(); for (variable of localVariables) map.set(variable.name, variable):
\* of two variables with one name the later listed one stays.
LastCollectionOf(name) ==
    LET at == { i \in 1..Len(localOrder) : <<localOrder[i], name>> \in LocalVariableIds }
    IN localOrder[CHOOSE i \in at : \A j \in at : j <= i]

BuildVariableMap ==
    [ name \in { id[2] : id \in LocalVariableIds } |-> <<LastCollectionOf(name), name>> ]

(***************************************************************************)
(* part_000: the alpha-derivation reconciliation (handleVariableCreation)  *)
(***************************************************************************)

\* validateVariables names the derived variable `${base}_${opacity}`.
DerivedName(base, opacity) == base \o << "_" >> \o NumberToString(opacity)

AlphaItem(base, opacity, css) ==
    [ baseVariable |-> base,
      newVariable  |-> DerivedName(base, opacity),
      opacity      |-> opacity,
      cssFunction  |-> css ]

\* deduplicateVariables: one entry per newVariable, the first occurrence kept,
\* its duplicateCount counting the occurrences; Map keeps insertion order.
RECURSIVE DedupInto(_, _)
DedupInto(uniqueMap, variables) ==
    IF variables = <<>> THEN uniqueMap
    ELSE LET variable == Head(variables)
             key == variable.newVariable
             has == { i \in 1..Len(uniqueMap) : uniqueMap[i].newVariable = key }
         IN IF has # {}
            THEN LET i == CHOOSE i \in has : TRUE
                 IN DedupInto([uniqueMap EXCEPT ![i].duplicateCount = @ + 1],
                              Tail(variables))
            ELSE DedupInto(Append(uniqueMap,
                                  [ baseVariable   |-> variable.baseVariable,
                                    newVariable    |-> variable.newVariable,
                                    opacity        |-> variable.opacity,
                                    cssFunction    |-> variable.cssFunction,
                                    duplicateCount |-> 1 ]),
                           Tail(variables))

deduplicateVariables(variables) == DedupInto(<<>>, variables)

\* The comparators handed to Array.prototype.sort.
CompareItems(x, y, by) ==
    IF by = "opacity" THEN x.opacity - y.opacity
    ELSE LocaleCompare(x.newVariable, y.newVariable)

\* Array.prototype.sort (stable), as an insertion sort.
RECURSIVE InsertBy(_, _, _)
InsertBy(x, s, by) ==
    IF s = <<>> THEN << x >>
    ELSE IF CompareItems(x, Head(s), by) < 0 THEN << x >> \o s
    ELSE << Head(s) >> \o InsertBy(x, Tail(s), by)

RECURSIVE SortBy(_, _)
SortBy(s, by) ==
    IF s = <<>> THEN <<>> ELSE InsertBy(Last(s), SortBy(Front(s), by), by)

\* groupedByBase: the base names in order of first occurrence.
RECURSIVE GroupKeys(_, _)
GroupKeys(seen, items) ==
    IF items = <<>> THEN seen
    ELSE IF \E i \in 1..Len(seen) : seen[i] = Head(items).baseVariable
         THEN GroupKeys(seen, Tail(items))
         ELSE GroupKeys(Append(seen, Head(items).baseVariable), Tail(items))

GroupItems(items, baseName) == SelectSeq(items, LAMBDA it : it.baseVariable = baseName)

\* The order in which the items are processed: group after group, each group
\* sorted by opacity.
ProcessingOrder(uniqueVariables) ==
    LET keys == GroupKeys(<<>>, uniqueVariables)
    IN Flatten([ g \in 1..Len(keys) |->
                   SortBy(GroupItems(uniqueVariables, keys[g]), "opacity") ])

\* getVariableColorValue: the value under the default mode of the variable's
\* collection when it is a COLOR holding a colour object, else null.
getVariableColorValue(st, cs, id) ==
    LET variable == st[id]
        defaultModeId == cs[id[1]].defaultModeId
    IN IF /\ defaultModeId \in DOMAIN variable.valuesByMode
          /\ variable.resolvedType = "COLOR"
          /\ variable.valuesByMode[defaultModeId].kind = "color"
       THEN variable.valuesByMode[defaultModeId]
       ELSE Null

KeepBaseAlpha(color, opacityPercent) == color

applyOpacityToColor(color, opacityPercent) == ColorValue(color.rgb, opacityPercent)

(***************************************************************************)
(* The host's variable store (external collaborator): the primitives the   *)
(* programs call, each of which may throw.                                 *)
(***************************************************************************)

ModeIds(cs, collId) == { cs[collId].modes[i].modeId : i \in 1..Len(cs[collId].modes) }

\* figma.variables.createVariable(name, collection, "COLOR"): a new variable
\* without values.
HostCreateVariable(st, collId, name) ==
    st @@ (<<collId, name>> :> Variable("COLOR", EmptyMap))

\* variable.setValueForMode(modeId, value): the host rejects a mode that is
\* not a mode of the variable's collection.
HostRejectsMode(cs, id, modeId) == modeId \notin ModeIds(cs, id[1])

HostSetValueForMode(st, id, modeId, value) ==
    [st EXCEPT ![id].valuesByMode =
        [ m \in (DOMAIN @) \cup {modeId} |-> IF m = modeId THEN value ELSE @[m] ]]

\* What the host does to the calls of one request: the names for which
\* createVariable throws and those for which setValueForMode throws.
HostEnv(createFails, setFails) == [createFails |-> createFails, setFails |-> setFails]

(***************************************************************************)
(* handleVariableCreation: the loop body, for one item                     *)
(***************************************************************************)

AlphaFailed(item, error) ==
    [ baseVariable |-> item.baseVariable,
      newVariable  |-> item.newVariable,
      opacity      |-> item.opacity,
      cssFunction  |-> item.cssFunction,
      error        |-> error ]

AlphaResult(item) ==
    [ baseVariable   |-> item.baseVariable,
      newVariable    |-> item.newVariable,
      opacity        |-> item.opacity,
      cssFunction    |-> item.cssFunction,
      duplicateCount |-> item.duplicateCount ]

\* acc: [store, variableMap, created, updated, failed, creates, processed]
\* creates logs every createVariable call of the request, processed the
\* items in the order the loop takes them.
ProcessAlphaItem(acc, item, collId, cs, env) ==
    LET seen == [acc EXCEPT !.processed = Append(@, item.newVariable)]
        fail(a, error) == [a EXCEPT !.failed = Append(@, AlphaFailed(item, error))]
    IN
    IF item.baseVariable \notin DOMAIN acc.variableMap
    THEN fail(seen, "Base variable not found")
    ELSE
    LET baseColor == getVariableColorValue(acc.store, cs, acc.variableMap[item.baseVariable])
    IN
    IF baseColor = Null
    THEN fail(seen, "Could not get base color value")
    ELSE
    LET newColor == applyOpacityToColor(baseColor, item.opacity)
        wasUpdated == item.newVariable \in DOMAIN acc.variableMap
        looked == [seen EXCEPT !.lookups =
                      Append(@, [ name |-> item.newVariable,
                                  present |-> item.newVariable \in DOMAIN acc.variableMap ])]
        called == IF wasUpdated THEN looked
                  ELSE [looked EXCEPT !.creates = Append(@, item.newVariable)]
    IN
    IF ~wasUpdated /\ item.newVariable \in env.createFails
    THEN fail(called, "createVariable threw")
    ELSE
    LET id == IF wasUpdated THEN acc.variableMap[item.newVariable]
              ELSE <<collId, item.newVariable>>
        made == IF wasUpdated THEN called
                ELSE [called EXCEPT
                        !.store = HostCreateVariable(@, collId, item.newVariable),
                        !.variableMap = @ @@ (item.newVariable :> id)]
        modeId == cs[collId].defaultModeId
    IN
    IF item.newVariable \in env.setFails \/ HostRejectsMode(cs, id, modeId)
    THEN fail(made, "setValueForMode threw")
    ELSE
    LET written == [made EXCEPT !.store = HostSetValueForMode(@, id, modeId, newColor)]
    IN IF wasUpdated
       THEN [written EXCEPT !.updated = Append(@, AlphaResult(item))]
       ELSE [written EXCEPT !.created = Append(@, AlphaResult(item))]

RECURSIVE ProcessAlphaItems(_, _, _, _, _)
ProcessAlphaItems(acc, items, collId, cs, env) ==
    IF items = <<>> THEN acc
    ELSE ProcessAlphaItems(ProcessAlphaItem(acc, Head(items), collId, cs, env),
                           Tail(items), collId, cs, env)

(***************************************************************************)
(* handleVariableCreation: the whole handler                               *)
(***************************************************************************)

CreationComplete(success, results) ==
    [type |-> "creation-complete", success |-> success, results |-> results]

\* n: the number of the request; status: "none", "running", "reported" (a
\* message with results was posted), "refused" (a message without results),
\* "abandoned" (the request ended without a message); unique: the work list as
\* processed; known: the names in the existing-entities snapshot at the start;
\* before: the store at the start; lookups: every lookup of a name in the
\* existing-entities snapshot, with whether the snapshot held the name then.
EmptyTrace ==
    [ n |-> 0, status |-> "none", unique |-> <<>>, known |-> {}, creates |-> <<>>,
      processed |-> <<>>, before |-> EmptyMap, lookups |-> <<>> ]

NewCollectionIds == {"N1", "N2", "N3"}
FreshCollectionId == CHOOSE c \in NewCollectionIds : c \notin DOMAIN colls

\* uniqueVariables.sort(localeCompare) after deduplicateVariables
UniqueSorted(variablesToCreate) == SortBy(deduplicateVariables(variablesToCreate), "newVariable")

\* The message handleVariableCreation posts for the outcome acc.
AlphaReport(acc, uniqueVariables, variablesToCreate) ==
    CreationComplete(TRUE,
        [ created |-> SortBy(acc.created, "newVariable"),
          updated |-> SortBy(acc.updated, "newVariable"),
          failed  |-> acc.failed,
          summary |-> [ created |-> Len(acc.created),
                        updated |-> Len(acc.updated),
                        failed  |-> Len(acc.failed),
                        total   |-> Len(uniqueVariables),
                        originalTotal |-> Len(variablesToCreate) ] ])

handleVariableCreation(variablesToCreate, selectedCollectionId, env) ==
    LET uniqueVariables == UniqueSorted(variablesToCreate)
        variableMap == BuildVariableMap
        req == [ type |-> "create-variables",
                 variablesToCreate |-> variablesToCreate,
                 selectedCollectionId |-> selectedCollectionId,
                 env |-> env ]
        start == [EmptyTrace EXCEPT !.n = trace.n + 1,
                                    !.unique = uniqueVariables,
                                    !.known = DOMAIN variableMap,
                                    !.before = store]
    IN
    /\ request' = req
    /\ IF selectedCollectionId \notin { "", "new" }
          /\ selectedCollectionId \notin DOMAIN colls
       THEN \* throw new Error("Selected collection not found")
            /\ outbox' = Append(outbox, CreationComplete(FALSE, NoResults))
            /\ trace' = [start EXCEPT !.status = "refused"]
            /\ UNCHANGED <<store, colls, localOrder>>
       ELSE
       LET isNew == selectedCollectionId \in { "", "new" }
           collId == IF isNew THEN FreshCollectionId ELSE selectedCollectionId
           cs == IF isNew
                 THEN colls @@ (collId :> Collection(<< Mode(<<collId, 1>>, "Mode 1") >>))
                 ELSE colls
           acc == ProcessAlphaItems(
                     [ store |-> store, variableMap |-> variableMap,
                       created |-> <<>>, updated |-> <<>>, failed |-> <<>>,
                       creates |-> <<>>, processed |-> <<>>, lookups |-> <<>> ],
                     ProcessingOrder(uniqueVariables), collId, cs, env)
       IN /\ colls' = cs
          /\ localOrder' = IF isNew THEN Append(localOrder, collId) ELSE localOrder
          /\ store' = acc.store
          /\ outbox' = Append(outbox, AlphaReport(acc, uniqueVariables, variablesToCreate))
          /\ trace' = [start EXCEPT !.status = "reported",
                                    !.creates = acc.creates,
                                    !.processed = acc.processed,
                                    !.lookups = acc.lookups]

(***************************************************************************)
(* SpecAlpha: the opacity generator handling create-variables requests     *)
(***************************************************************************)

MaxItems == 3        \* longest work list of a request
MaxRequests == 1     \* create-variables requests in one behaviour
MaxThrows == 1       \* names for which the host throws during one request

na == << "a" >>
nb == << "b" >>
AlphaBases == { na, nb }
Opacities == { 5, 10 }

\* The items a request may carry: one per base and opacity, and a second
\* occurrence of a_5 written differently in the source text.
AlphaItems ==
    { AlphaItem(b, o, "f1") : b \in AlphaBases, o \in Opacities } \cup
    { AlphaItem(na, 5, "f2") }
DerivedNames == { DerivedName(b, o) : b \in AlphaBases, o \in Opacities }

AlphaWorkLists == BoundedSeq(AlphaItems, MaxItems)

SmallSubsets(S, n) == { T \in SUBSET S : Cardinality(T) <= n }

AlphaEnvs ==
    { HostEnv(c, {}) : c \in SmallSubsets(DerivedNames, MaxThrows) } \cup
    { HostEnv({}, t) : t \in SmallSubsets(DerivedNames, MaxThrows) }

\* The local variables the file holds when the plugin starts: the base
\* colours live in collection "O" (absent, a COLOR, or a variable without a
\* colour value), some derived variables exist already in collection "T".
BaseStates == { "absent", "color", "nocolor" }
PreExisting == { DerivedName(na, 5) }

OneMode(collId) == Collection(<< Mode(<<collId, 1>>, "Mode 1") >>)

AlphaStore(bases, pre) ==
    [ id \in { <<"O", b>> : b \in { x \in AlphaBases : bases[x] # "absent" } }
             \cup { <<"T", n>> : n \in pre } |->
        IF id[1] = "O"
        THEN IF bases[id[2]] = "color"
             THEN Variable("COLOR", (<<"O", 1>> :> ColorValue(id[2], 100)))
             ELSE Variable("FLOAT", (<<"O", 1>> :> [kind |-> "number"]))
        ELSE Variable("COLOR", (<<"T", 1>> :> ColorValue(id[2], 100))) ]

AlphaInit ==
    /\ call = NoCall /\ returned = Null /\ NothingElse
    /\ plugin = OpacityGenerator
    /\ colls = ("T" :> OneMode("T")) @@ ("O" :> OneMode("O"))
    /\ localOrder = << "O", "T" >>
    /\ store \in { AlphaStore(bases, pre) :
                     bases \in [AlphaBases -> BaseStates], pre \in SUBSET PreExisting }
    /\ request = NoRequest
    /\ outbox = <<>>
    /\ trace = EmptyTrace
    /\ pc = "idle"
    /\ collectionsLoaded = FALSE
    /\ uploadedJsonData = [kind |-> "null"]
    /\ batch = Null
    /\ cssContent = Null
    /\ themeVariables = <<>>

AlphaCreateVariables ==
    /\ plugin = OpacityGenerator
    /\ trace.n < MaxRequests
    /\ \E variablesToCreate \in AlphaWorkLists,
          selectedCollectionId \in { "T", "new", "gone" },
          env \in AlphaEnvs :
            handleVariableCreation(variablesToCreate, selectedCollectionId, env)
    /\ UNCHANGED << pc, collectionsLoaded, uploadedJsonData, batch, cssContent, plugin, call, returned,
                    themeVariables,
                    later, clientStorage, loading, cleanup >>

AlphaNext == AlphaCreateVariables

vars == << store, colls, localOrder, request, outbox, trace, pc, collectionsLoaded,
          uploadedJsonData, batch, cssContent, themeVariables, plugin, call,
          returned, later, clientStorage, loading, cleanup >>

SpecAlpha == AlphaInit /\ [][AlphaNext]_vars

(***************************************************************************)
(* code.js: the name resolvers                                             *)
(*                                                                         *)
(* A source (a name -> variable map, or the uploaded JSON keyed by name)   *)
(* is given by the set of its names; a resolver returns the name of the    *)
(* entry it found, or NotFound.                                            *)
(***************************************************************************)

NotFound == <<>>

Black == << "b", "l", "a", "c", "k" >>
White == << "w", "h", "i", "t", "e" >>

isSteplessColor(name) ==
    LET colorName == ToLowerCase(LastSegment(name))
    IN colorName = Black \/ colorName = White

\* findSourceVariable: exact, color/-prefixed, prefix-stripped, then the
\* simplified stepless form.
findSourceVariable(sourceNames, variableName) ==
    LET withPrefix == ColorSlash \o StripColorPrefix(variableName)
        withoutPrefix == StripColorPrefix(variableName)
        simplePath == ColorSlash \o LastSegment(variableName)
    IN IF variableName \in sourceNames THEN variableName
       ELSE IF withPrefix \in sourceNames THEN withPrefix
       ELSE IF withoutPrefix \in sourceNames THEN withoutPrefix
       ELSE IF isSteplessColor(variableName) /\ simplePath \in sourceNames THEN simplePath
       ELSE NotFound

\* findVariableKeyInJson: _100 stripped, then the simplified stepless form,
\* exact, color/-prefixed, prefix-stripped.
findVariableKeyInJson(jsonNames, variableName) ==
    LET normalizedName == Strip100(variableName)
        simplePath == ColorSlash \o LastSegment(normalizedName)
        withPrefix == ColorSlash \o StripColorPrefix(normalizedName)
        withoutPrefix == StripColorPrefix(normalizedName)
    IN IF isSteplessColor(normalizedName) /\ simplePath \in jsonNames THEN simplePath
       ELSE IF normalizedName \in jsonNames THEN normalizedName
       ELSE IF withPrefix \in jsonNames THEN withPrefix
       ELSE IF withoutPrefix \in jsonNames THEN withoutPrefix
       ELSE NotFound

\* processLibraryVariables: sourceVariableMap[item.lightReference]
LookupLibraryVariable(sourceNames, variableName) ==
    IF variableName \in sourceNames THEN variableName ELSE NotFound

(***************************************************************************)
(* code.js: setupCollectionModes                                           *)
(***************************************************************************)

Contains(s, p) == \E i \in 1..(Len(s) + 1) : i + Len(p) - 1 <= Len(s) /\ SubSeq(s, i, i + Len(p) - 1) = p

NameLight == << "L", "i", "g", "h", "t" >>
NameDark == << "D", "a", "r", "k" >>
NameMode1 == << "M", "o", "d", "e", " ", "1" >>

\* collection.addMode(name): a new mode at the end, its id returned
AddedModeId(coll, collId) == << collId, Len(coll.modes) + 1 >>
HostAddMode(coll, collId, name) ==
    [coll EXCEPT !.modes = Append(@, Mode(AddedModeId(coll, collId), name))]

\* collection.renameMode(modeId, name)
HostRenameMode(coll, modeId, name) ==
    [coll EXCEPT !.modes =
        [ i \in 1..Len(@) |-> IF @[i].modeId = modeId THEN Mode(modeId, name) ELSE @[i] ]]

\* The loop over collection.modes: the last mode whose name holds "light" is
\* the light mode, the last one that holds "dark" (and not "light") the dark one.
RECURSIVE FindModes(_, _, _)
FindModes(modes, lightModeId, darkModeId) ==
    IF modes = <<>> THEN [lightModeId |-> lightModeId, darkModeId |-> darkModeId]
    ELSE LET modeName == ToLowerCase(Head(modes).name)
         IN IF Contains(modeName, ToLowerCase(NameLight))
            THEN FindModes(Tail(modes), Head(modes).modeId, darkModeId)
            ELSE IF Contains(modeName, ToLowerCase(NameDark))
            THEN FindModes(Tail(modes), lightModeId, Head(modes).modeId)
            ELSE FindModes(Tail(modes), lightModeId, darkModeId)

NoMode == << "none", 0 >>

\* setupCollectionModes: the collection afterwards, and the two mode ids
setupCollectionModes(coll, collId) ==
    IF Len(coll.modes) = 1
    THEN [ coll |-> HostAddMode(HostRenameMode(coll, coll.defaultModeId, NameLight),
                                collId, NameDark),
           lightModeId |-> coll.defaultModeId,
           darkModeId |-> AddedModeId(coll, collId) ]
    ELSE LET found == FindModes(coll.modes, coll.defaultModeId, NoMode)
         IN IF found.darkModeId = NoMode
            THEN [ coll |-> HostAddMode(coll, collId, NameDark),
                   lightModeId |-> found.lightModeId,
                   darkModeId |-> AddedModeId(coll, collId) ]
            ELSE [ coll |-> coll,
                   lightModeId |-> found.lightModeId,
                   darkModeId |-> found.darkModeId ]

(***************************************************************************)
(* code.js: the theme-mapping reconciliation, item by item                 *)
(*                                                                         *)
(* acc: [store, existingVariables, created, updated, failed, pending,      *)
(*       creates, processed];  ctx: the parameters of the process...       *)
(* functions: [targetId, lightModeId, darkModeId, cs, env, sourceNames,    *)
(* sourceId].                                                              *)
(***************************************************************************)

ThemeItem(name, light, dark) ==
    [variableName |-> name, lightReference |-> light, darkReference |-> dark]

ThemeFailed(item, error) ==
    [ variableName   |-> item.variableName,
      lightReference |-> item.lightReference,
      darkReference  |-> item.darkReference,
      error          |-> error ]

ThemeResult(item, lightSourceVar, darkSourceVar) ==
    [ variableName   |-> item.variableName,
      lightReference |-> item.lightReference,
      darkReference  |-> item.darkReference,
      lightSourceVar |-> lightSourceVar,
      darkSourceVar  |-> darkSourceVar ]

FailureLost(acc, item, error) == acc
PushFailed(acc, item, error) == [acc EXCEPT !.failed = Append(@, ThemeFailed(item, error))]

\* existingVariables[item.variableName] = targetVariable
RegisterNothing(existingVariables, name, id) == existingVariables
RegisterExisting(existingVariables, name, id) == existingVariables @@ (name :> id)

\* "Get or create target variable": var wasUpdated = !!targetVariable; the
\* variable is created and registered when absent. threw: createVariable threw.
GetOrCreateTarget(acc, item, ctx) ==
    LET name == item.variableName
        wasUpdated == name \in DOMAIN acc.existingVariables
        id == IF wasUpdated THEN acc.existingVariables[name] ELSE << ctx.targetId, name >>
        looked == [acc EXCEPT !.lookups =
                      Append(@, [ name |-> name,
                                  present |-> name \in DOMAIN acc.existingVariables ])]
        called == IF wasUpdated THEN looked
                  ELSE [looked EXCEPT !.creates = Append(@, name)]
    IN IF ~wasUpdated /\ name \in ctx.env.createFails
       THEN [threw |-> TRUE, acc |-> called, id |-> id, wasUpdated |-> wasUpdated]
       ELSE [ threw |-> FALSE, id |-> id, wasUpdated |-> wasUpdated,
              acc |-> IF wasUpdated THEN called
                      ELSE [called EXCEPT
                              !.store = HostCreateVariable(@, ctx.targetId, name),
                              !.existingVariables = RegisterExisting(@, name, id)] ]

\* targetVariable.setValueForMode(lightModeId, lightAlias);
\* targetVariable.setValueForMode(darkModeId, darkAlias)
SetAliases(st, id, lightModeId, darkModeId, lightId, darkId) ==
    HostSetValueForMode(HostSetValueForMode(st, id, lightModeId, AliasValue(lightId)),
                        id, darkModeId, AliasValue(darkId))

PushAlwaysCreated(acc, wasUpdated, result) ==
    [acc EXCEPT !.created = Append(@, result)]

\* if (wasUpdated) updated.push(result) else created.push(result)
PushResult(acc, wasUpdated, result) ==
    IF wasUpdated THEN [acc EXCEPT !.updated = Append(@, result)]
    ELSE [acc EXCEPT !.created = Append(@, result)]

\* processLocalVariables: the loop body
ProcessLocalItem(acc, item, ctx) ==
    LET seen == [acc EXCEPT !.processed = Append(@, item.variableName)]
        lightSourceVar == findSourceVariable(ctx.sourceNames, item.lightReference)
        darkSourceVar == findSourceVariable(ctx.sourceNames, item.darkReference)
    IN
    IF lightSourceVar = NotFound
    THEN PushFailed(seen, item, "Light source variable not found")
    ELSE IF darkSourceVar = NotFound
    THEN PushFailed(seen, item, "Dark source variable not found")
    ELSE
    LET got == GetOrCreateTarget(seen, item, ctx)
    IN
    IF got.threw THEN PushFailed(got.acc, item, "createVariable threw")
    ELSE IF \/ item.variableName \in ctx.env.setFails
            \/ HostRejectsMode(ctx.cs, got.id, ctx.lightModeId)
            \/ HostRejectsMode(ctx.cs, got.id, ctx.darkModeId)
    THEN PushFailed(got.acc, item, "setValueForMode threw")
    ELSE PushResult(
            [got.acc EXCEPT !.store =
                SetAliases(@, got.id, ctx.lightModeId, ctx.darkModeId,
                           << ctx.sourceId, lightSourceVar >>,
                           << ctx.sourceId, darkSourceVar >>)],
            got.wasUpdated,
            ThemeResult(item, lightSourceVar, darkSourceVar))

RECURSIVE processLocalVariables(_, _, _)
processLocalVariables(acc, variablesToCreate, ctx) ==
    IF variablesToCreate = <<>> THEN acc
    ELSE processLocalVariables(ProcessLocalItem(acc, Head(variablesToCreate), ctx),
                               Tail(variablesToCreate), ctx)

\* An item whose two imports are in flight: the closure of its callbacks.
PendingImport(item, id, wasUpdated, lightKey, darkKey) ==
    [ item |-> item, targetVariable |-> id, wasUpdated |-> wasUpdated,
      lightKey |-> lightKey, darkKey |-> darkKey ]

\* The get-or-create and the issue of the two imports, shared by
\* processLibraryVariableWithJson and importLibraryVariables.
IssueImports(acc, i, item, lightKey, darkKey, ctx) ==
    LET got == GetOrCreateTarget(acc, item, ctx)
    IN IF got.threw THEN PushFailed(got.acc, item, "createVariable threw")
       ELSE [got.acc EXCEPT !.pending =
                @ @@ (i :> PendingImport(item, got.id, got.wasUpdated, lightKey, darkKey))]

\* processLibraryVariableWithJson, up to the imports: the i-th item
processLibraryVariableWithJson(acc, i, item, ctx) ==
    LET seen == [acc EXCEPT !.processed = Append(@, item.variableName)]
        lightKey == findVariableKeyInJson(ctx.sourceNames, item.lightReference)
        darkKey == findVariableKeyInJson(ctx.sourceNames, item.darkReference)
    IN IF lightKey = NotFound
       THEN PushFailed(seen, item, "Variable key not found in uploaded JSON file for light reference")
       ELSE IF darkKey = NotFound
       THEN PushFailed(seen, item, "Variable key not found in uploaded JSON file for dark reference")
       ELSE IssueImports(seen, i, item, lightKey, darkKey, ctx)

\* processLibraryVariables: the loop body (importLibraryVariables up to the imports)
ProcessLibraryItem(acc, i, item, ctx) ==
    LET seen == [acc EXCEPT !.processed = Append(@, item.variableName)]
        lightSourceVar == LookupLibraryVariable(ctx.sourceNames, item.lightReference)
        darkSourceVar == LookupLibraryVariable(ctx.sourceNames, item.darkReference)
    IN IF lightSourceVar = NotFound
       THEN PushFailed(seen, item, "Light source variable not found")
       ELSE IF darkSourceVar = NotFound
       THEN PushFailed(seen, item, "Dark source variable not found")
       ELSE IssueImports(seen, i, item, lightSourceVar, darkSourceVar, ctx)

\* The loops of processLibraryVariablesWithJson and processLibraryVariables
RECURSIVE IssueAll(_, _, _, _, _)
IssueAll(acc, i, variablesToCreate, ctx, withJson) ==
    IF i > Len(variablesToCreate) THEN acc
    ELSE IssueAll(IF withJson
                  THEN processLibraryVariableWithJson(acc, i, variablesToCreate[i], ctx)
                  ELSE ProcessLibraryItem(acc, i, variablesToCreate[i], ctx),
                  i + 1, variablesToCreate, ctx, withJson)

\* sendResults
sendResults(created, updated, failed) ==
    CreationComplete(Len(failed) = 0,
                     [created |-> created, updated |-> updated, failed |-> failed])

(***************************************************************************)
(* code.js: the create-variables request                                   *)
(***************************************************************************)

NoJson == [kind |-> "null"]
Json(names) == [kind |-> "json", names |-> names]

CollectionsLoadedMessage(success) == [type |-> "collections-loaded", success |-> success]

\* The names of the variables of collection collId (local or library)
NamesIn(st, collId) == { id[2] : id \in { x \in DOMAIN st : x[1] = collId } }

\* processVariables: "Get existing variables in target collection"
ExistingVariables(st, targetId) ==
    [ name \in NamesIn(st, targetId) |-> << targetId, name >> ]

LibraryKeys == { "L" }       \* the keys of the available library collections

EmptyBatch(items) ==
    [ items |-> items, targetId |-> "", lightModeId |-> NoMode, darkModeId |-> NoMode,
      existingVariables |-> EmptyMap, created |-> <<>>, updated |-> <<>>,
      failed |-> <<>>, pending |-> EmptyMap ]

Ctx(b, cs, env, sourceNames, sourceId) ==
    [ targetId |-> b.targetId, lightModeId |-> b.lightModeId, darkModeId |-> b.darkModeId,
      cs |-> cs, env |-> env, sourceNames |-> sourceNames, sourceId |-> sourceId ]

Acc(st, b, tr) ==
    [ store |-> st, existingVariables |-> b.existingVariables,
      created |-> b.created, updated |-> b.updated, failed |-> b.failed,
      pending |-> b.pending, creates |-> tr.creates, processed |-> tr.processed,
      lookups |-> tr.lookups ]

\* The request state after the synchronous part acc
BatchAfter(b, acc) ==
    [b EXCEPT !.existingVariables = acc.existingVariables,
              !.created = acc.created, !.updated = acc.updated,
              !.failed = acc.failed, !.pending = acc.pending]

TraceAfter(tr, acc) ==
    [tr EXCEPT !.creates = acc.creates, !.processed = acc.processed,
               !.lookups = acc.lookups]

\* loadCollections: the collections-loaded message is posted when the library
\* collections have been processed, or when loading them failed; only the
\* first path sets collectionsLoaded.
LoadCollections ==
    /\ plugin = ThemeMapper
    /\ pc = "idle" /\ trace.n = 0
    /\ ~\E i \in 1..Len(outbox) : outbox[i].type = "collections-loaded"
    /\ \E outcome \in { "resolved", "rejected" } :
        /\ outbox' = Append(outbox, CollectionsLoadedMessage(TRUE))
        /\ collectionsLoaded' = (IF outcome = "resolved" THEN TRUE ELSE collectionsLoaded)
    /\ UNCHANGED << store, colls, localOrder, request, trace, pc, uploadedJsonData,
                    batch, cssContent, plugin, call, returned, themeVariables,
                    later, clientStorage, loading, cleanup >>

createVariablesUnguarded(msg) ==
    /\ request' = msg
    /\ uploadedJsonData' = msg.jsonData
    /\ batch' = EmptyBatch(msg.variablesToCreate)
    /\ pc' = "loadingLibraries"
    /\ trace' = [EmptyTrace EXCEPT !.n = trace.n + 1, !.status = "running",
                                   !.unique = msg.variablesToCreate,
                                   !.before = store]
    /\ UNCHANGED << store, colls, localOrder, collectionsLoaded, cssContent, plugin, call,
                    returned, themeVariables, outbox,
                    later, clientStorage, loading, cleanup >>

\* figma.ui.onmessage, case "create-variables", and createVariablesFromCSS up
\* to the request for the library collections.
createVariablesFromCSS(msg) ==
    /\ request' = msg
    /\ uploadedJsonData' = msg.jsonData
    /\ batch' = EmptyBatch(msg.variablesToCreate)
    /\ IF collectionsLoaded
       THEN /\ pc' = "loadingLibraries"
            /\ trace' = [EmptyTrace EXCEPT !.n = trace.n + 1, !.status = "running",
                                           !.unique = msg.variablesToCreate,
                                           !.before = store]
            /\ outbox' = outbox
       ELSE \* throw new Error("Collections not loaded. Please refresh and try again.")
            /\ pc' = "idle"
            /\ trace' = [EmptyTrace EXCEPT !.n = trace.n + 1, !.status = "refused",
                                           !.unique = msg.variablesToCreate,
                                           !.before = store]
            /\ outbox' = Append(outbox, CreationComplete(FALSE, NoResults))
    /\ UNCHANGED << store, colls, localOrder, collectionsLoaded, cssContent, plugin, call, returned,
                    themeVariables,
                    later, clientStorage, loading, cleanup >>

\* processVariables, entered with both collections found
processVariables ==
    LET targetId == request.existingCollectionId
        modes == setupCollectionModes(colls[targetId], targetId)
        cs == [colls EXCEPT ![targetId] = modes.coll]
        b == [batch EXCEPT !.targetId = targetId,
                           !.lightModeId = modes.lightModeId,
                           !.darkModeId = modes.darkModeId,
                           !.existingVariables = ExistingVariables(store, targetId)]
        tr == [trace EXCEPT !.known = DOMAIN b.existingVariables]
    IN
    /\ colls' = cs
    /\ IF request.sourceCollectionType = "library"
       THEN IF uploadedJsonData # NoJson
            THEN LET acc == IssueAll(Acc(store, b, tr), 1, b.items,
                                     Ctx(b, cs, request.env, uploadedJsonData.names, "L"),
                                     TRUE)
                 IN /\ store' = acc.store
                    /\ batch' = BatchAfter(b, acc)
                    /\ trace' = TraceAfter(tr, acc)
                    /\ pc' = "importing"
                    /\ outbox' = outbox
            ELSE /\ pc' = "fetchingLibraryVariables"
                 /\ batch' = b
                 /\ trace' = tr
                 /\ UNCHANGED << store, outbox >>
       ELSE LET sourceId == request.selectedSourceCollectionId
                acc == processLocalVariables(Acc(store, b, tr), b.items,
                          Ctx(b, cs, request.env, NamesIn(store, sourceId), sourceId))
            IN /\ store' = acc.store
               /\ batch' = BatchAfter(b, acc)
               /\ trace' = [TraceAfter(tr, acc) EXCEPT !.status = "reported"]
               /\ outbox' = Append(outbox, sendResults(acc.created, acc.updated, acc.failed))
               /\ pc' = "idle"

LibraryCollectionsFailureAsResults ==
    /\ pc = "loadingLibraries"
    /\ \E outcome \in { "resolved", "rejected" } :
        IF \/ outcome = "rejected"
           \/ request.selectedSourceCollectionId \notin LibraryKeys \cup DOMAIN colls
           \/ request.existingCollectionId \notin DOMAIN colls
        THEN /\ outbox' = Append(outbox, sendResults(<<>>, <<>>, <<>>))
             /\ trace' = [trace EXCEPT !.status = "reported"]
             /\ pc' = "idle"
             /\ UNCHANGED << store, colls, batch >>
        ELSE processVariables
    /\ UNCHANGED << localOrder, request, collectionsLoaded, uploadedJsonData,
                    cssContent, plugin, call, returned, themeVariables,
                    later, clientStorage, loading, cleanup >>

\* The callbacks on getAvailableLibraryVariableCollectionsAsync() of
\* createVariablesFromCSS: the collections are looked up and processVariables
\* is called, or the failure is posted.
LibraryCollectionsSettled ==
    /\ pc = "loadingLibraries"
    /\ \E outcome \in { "resolved", "rejected" } :
        IF \/ outcome = "rejected"
           \/ request.selectedSourceCollectionId \notin LibraryKeys \cup DOMAIN colls
           \/ request.existingCollectionId \notin DOMAIN colls
        THEN /\ outbox' = Append(outbox, CreationComplete(FALSE, NoResults))
             /\ trace' = [trace EXCEPT !.status = "refused"]
             /\ pc' = "idle"
             /\ UNCHANGED << store, colls, batch >>
        ELSE processVariables
    /\ UNCHANGED << localOrder, request, collectionsLoaded, uploadedJsonData,
                    cssContent, plugin, call, returned, themeVariables,
                    later, clientStorage, loading, cleanup >>

\* The callbacks on getVariablesInLibraryCollectionAsync() of processVariables:
\* processLibraryVariables runs, or the error is thrown again and nobody
\* handles it.
LibraryVariablesSettled ==
    /\ pc = "fetchingLibraryVariables"
    /\ \E outcome \in { "resolved", "rejected" } :
        IF outcome = "rejected"
        THEN /\ pc' = "idle"
             /\ trace' = [trace EXCEPT !.status = "abandoned"]
             /\ UNCHANGED << store, batch >>
        ELSE LET acc == IssueAll(Acc(store, batch, trace), 1, batch.items,
                                 Ctx(batch, colls, request.env,
                                     NamesIn(store, request.selectedSourceCollectionId),
                                     request.selectedSourceCollectionId),
                                 FALSE)
             IN /\ store' = acc.store
                /\ batch' = BatchAfter(batch, acc)
                /\ trace' = TraceAfter(trace, acc)
                /\ pc' = "importing"
    /\ UNCHANGED << colls, localOrder, request, outbox, collectionsLoaded,
                    uploadedJsonData, cssContent, plugin, call, returned, themeVariables,
                    later, clientStorage, loading, cleanup >>

Without(f, i) == [ j \in (DOMAIN f) \ {i} |-> f[j] ]

\* The callbacks on Promise.all([lightPromise, darkPromise]) of the i-th item
\* (processLibraryVariableWithJson and importLibraryVariables alike): the
\* aliases are written and the result recorded, or the failure is.
ImportsSettled ==
    /\ pc = "importing"
    /\ \E i \in DOMAIN batch.pending, outcome \in { "imported", "rejected" } :
        LET p == batch.pending[i]
            rest == [batch EXCEPT !.pending = Without(@, i)]
        IN IF /\ outcome = "imported"
              /\ p.item.variableName \notin request.env.setFails
              /\ ~HostRejectsMode(colls, p.targetVariable, batch.lightModeId)
              /\ ~HostRejectsMode(colls, p.targetVariable, batch.darkModeId)
           THEN /\ store' = SetAliases(store, p.targetVariable, batch.lightModeId,
                                       batch.darkModeId, << "L", p.lightKey >>,
                                       << "L", p.darkKey >>)
                /\ batch' = PushResult(rest, p.wasUpdated,
                                       ThemeResult(p.item, p.lightKey, p.darkKey))
           ELSE /\ store' = store
                /\ batch' = PushFailed(rest, p.item, "Import failed")
    /\ UNCHANGED << colls, localOrder, request, outbox, trace, pc, collectionsLoaded,
                    uploadedJsonData, cssContent, plugin, call, returned, themeVariables,
                    later, clientStorage, loading, cleanup >>

SendResultsAtFirstSettled ==
    /\ pc = "importing"
    /\ outbox' = Append(outbox, sendResults(batch.created, batch.updated, batch.failed))
    /\ trace' = [trace EXCEPT !.status = "reported"]
    /\ pc' = "idle"
    /\ UNCHANGED << store, colls, localOrder, request, batch, collectionsLoaded,
                    uploadedJsonData, cssContent, plugin, call, returned, themeVariables,
                    later, clientStorage, loading, cleanup >>

\* The callback on Promise.all(promises) / Promise.all(importPromises):
\* sendResults once every item's promise has resolved.
AllImportsSettled ==
    /\ pc = "importing"
    /\ DOMAIN batch.pending = {}
    /\ outbox' = Append(outbox, sendResults(batch.created, batch.updated, batch.failed))
    /\ trace' = [trace EXCEPT !.status = "reported"]
    /\ pc' = "idle"
    /\ UNCHANGED << store, colls, localOrder, request, batch, collectionsLoaded,
                    uploadedJsonData, cssContent, plugin, call, returned, themeVariables,
                    later, clientStorage, loading, cleanup >>

(***************************************************************************)
(* SpecTheme: the theme mapper handling create-variables requests          *)
(***************************************************************************)

MaxThemeItems == 3   \* longest work list of a theme request

tx == ColorSlash \o << "x" >>
ty == ColorSlash \o << "y" >>
ra == ColorSlash \o << "a" >>
rb == ColorSlash \o << "b" >>

ThemeNames == { tx, ty }
SourceNames == { ra, rb }

\* The mappings a request may carry: two for color/x with different
\* references, one for color/y.
ThemeItems == { ThemeItem(tx, ra, ra), ThemeItem(tx, ra, rb), ThemeItem(ty, rb, rb) }

ThemeWorkLists == BoundedSeq(ThemeItems, MaxThemeItems)

ThemeEnvs ==
    { HostEnv(c, {}) : c \in SmallSubsets(ThemeNames, MaxThrows) } \cup
    { HostEnv({}, t) : t \in SmallSubsets(ThemeNames, MaxThrows) }

\* The sources a request may select: the local collection "S", the library
\* collection "L" with or without its JSON export, or a collection that is gone.
ThemeSources(st) ==
    { [id |-> "S", type |-> "local", jsonData |-> NoJson],
      [id |-> "L", type |-> "library", jsonData |-> NoJson],
      [id |-> "L", type |-> "library", jsonData |-> Json(NamesIn(st, "L"))],
      [id |-> "gone", type |-> "local", jsonData |-> NoJson] }

ThemeTargetModes ==
    { << Mode(<<"T", 1>>, NameMode1) >>,
      << Mode(<<"T", 1>>, NameLight), Mode(<<"T", 2>>, NameDark) >>,
      << Mode(<<"T", 1>>, NameMode1), Mode(<<"T", 2>>, NameLight) >>,
      << Mode(<<"T", 1>>, NameDark), Mode(<<"T", 2>>, NameMode1) >> }

\* The file when the plugin starts: the palette (the same names in the local
\* collection "S" and in the library collection "L") and the variables the
\* target collection "T" holds already.
ThemeStore(palette, pre) ==
    [ id \in { << c, n >> : c \in { "S", "L" }, n \in palette } \cup { << "T", n >> : n \in pre } |->
        IF id[1] = "T" THEN Variable("COLOR", EmptyMap)
        ELSE Variable("COLOR", (<< id[1], 1 >> :> ColorValue(id[2], 100))) ]

ThemeInit ==
    /\ call = NoCall /\ returned = Null /\ NothingElse
    /\ plugin = ThemeMapper
    /\ \E modes \in ThemeTargetModes :
         colls = ("T" :> Collection(modes)) @@ ("S" :> OneMode("S"))
    /\ localOrder = << "S", "T" >>
    /\ store \in { ThemeStore(palette, pre) :
                     palette \in SUBSET SourceNames, pre \in SUBSET { tx } }
    /\ request = NoRequest
    /\ outbox = <<>>
    /\ trace = EmptyTrace
    /\ pc = "idle"
    /\ collectionsLoaded = FALSE
    /\ uploadedJsonData = NoJson
    /\ batch = Null
    /\ cssContent = Null
    /\ themeVariables = <<>>

ThemeCreateVariables ==
    /\ plugin = ThemeMapper
    /\ pc = "idle"
    /\ trace.n < MaxRequests
    /\ \E variablesToCreate \in ThemeWorkLists,
          source \in ThemeSources(store),
          existingCollectionId \in { "T", "gone" },
          env \in ThemeEnvs :
            createVariablesFromCSS(
                [ type |-> "create-variables",
                  variablesToCreate |-> variablesToCreate,
                  selectedSourceCollectionId |-> source.id,
                  sourceCollectionType |-> source.type,
                  existingCollectionId |-> existingCollectionId,
                  jsonData |-> source.jsonData,
                  env |-> env ])

ThemeNext ==
    \/ LoadCollections
    \/ ThemeCreateVariables
    \/ LibraryCollectionsSettled
    \/ LibraryVariablesSettled
    \/ ImportsSettled
    \/ AllImportsSettled

SpecTheme == ThemeInit /\ [][ThemeNext]_vars

(***************************************************************************)
(* SpecOverlap: a second create-variables message while the first request  *)
(* is in flight                                                            *)
(*                                                                         *)
(* figma.ui.onmessage runs for every message, whatever the requests in     *)
(* flight.  The second message is one whose target collection is gone, so  *)
(* that its own handling ends at the lookup of the collections.            *)
(***************************************************************************)

\* figma.ui.onmessage, case "create-variables", for a message received while
\* the callbacks of an earlier one are outstanding: the global
\* uploadedJsonData is assigned and createVariablesFromCSS asks for the
\* library collections again.
OverlappingCreateVariables ==
    /\ plugin = ThemeMapper
    /\ pc = "loadingLibraries"   \* the first request awaits the library collections
    /\ later = NoRequest
    /\ \E jsonData \in { NoJson, Json(NamesIn(store, "L")) } :
        /\ uploadedJsonData' = jsonData
        /\ IF collectionsLoaded
           THEN /\ later' = [ type |-> "create-variables",
                              existingCollectionId |-> "gone",
                              jsonData |-> jsonData,
                              pc |-> "loadingLibraries" ]
                /\ outbox' = outbox
           ELSE /\ later' = [ type |-> "create-variables",
                              existingCollectionId |-> "gone",
                              jsonData |-> jsonData,
                              pc |-> "idle" ]
                /\ outbox' = Append(outbox, CreationComplete(FALSE, NoResults))
    /\ UNCHANGED << store, colls, localOrder, request, trace, pc, collectionsLoaded,
                    batch, cssContent, themeVariables, plugin, call, returned,
                    clientStorage, loading, cleanup >>

\* The callbacks on getAvailableLibraryVariableCollectionsAsync() of the
\* second request: its target collection is not found (or the promise was
\* rejected) and the failure is posted.
LaterCollectionsSettled ==
    /\ later # NoRequest
    /\ later.pc = "loadingLibraries"
    /\ later.existingCollectionId \notin DOMAIN colls
    /\ outbox' = Append(outbox, CreationComplete(FALSE, NoResults))
    /\ later' = [later EXCEPT !.pc = "idle"]
    /\ UNCHANGED << store, colls, localOrder, request, trace, pc, collectionsLoaded,
                    uploadedJsonData, batch, cssContent, themeVariables, plugin,
                    call, returned, clientStorage, loading, cleanup >>

OverlapNext ==
    \/ LoadCollections
    \/ ThemeCreateVariables
    \/ OverlappingCreateVariables
    \/ LibraryCollectionsSettled
    \/ LaterCollectionsSettled
    \/ LibraryVariablesSettled
    \/ ImportsSettled
    \/ AllImportsSettled

SpecOverlap == ThemeInit /\ [][OverlapNext]_vars

(***************************************************************************)
(* code.js: the theme parser                                               *)
(*                                                                         *)
(* The source text is given by what the three block expressions capture    *)
(* (@theme {...}, :root/.light {...}, .dark {...}; NoBlock when one does    *)
(* not match), each block by its declarations  --name: var(--reference)    *)
(* [ / p% ]  in order. Names and references are the characters between     *)
(* "--" and ":" and between "var(--" and ")", blanks included.             *)
(*                                                                         *)
(* A JavaScript object used as a map is a sequence of [key, value] in      *)
(* insertion order (no key of the model is an integer index).              *)
(***************************************************************************)

NoBlock == [matched |-> FALSE, declarations |-> <<>>]
Block(declarations) == [matched |-> TRUE, declarations |-> declarations]

Declaration(name, reference, opacity) ==
    [name |-> name, reference |-> reference, opacity |-> opacity]

\* obj[key] = value
Put(obj, key, value) ==
    IF \E i \in 1..Len(obj) : obj[i].key = key
    THEN [ i \in 1..Len(obj) |->
             IF obj[i].key = key THEN [key |-> key, value |-> value] ELSE obj[i] ]
    ELSE Append(obj, [key |-> key, value |-> value])

HasOwn(obj, key) == \E i \in 1..Len(obj) : obj[i].key = key
Own(obj, key) == obj[CHOOSE i \in 1..Len(obj) : obj[i].key = key].value

\* Keys every object inherits from Object.prototype (the one the texts of
\* the model can name).
Constructor == << "c", "o", "n", "s", "t", "r", "u", "c", "t", "o", "r" >>
ObjectPrototypeKeys == { Constructor }

\* obj[key] read as a condition: an own non-empty string, or a function
\* inherited from Object.prototype.
Truthy(obj, key) ==
    IF HasOwn(obj, key) THEN Own(obj, key) # <<>> ELSE key \in ObjectPrototypeKeys

ColorDash == << "c", "o", "l", "o", "r", "-" >>

\* themeVarRegex: --color-([^:]+):\s*var\(--([^)]+)\) ; the map is keyed by
\* the reference and holds "color/" + colorName.replace(/-/g, "/").
RECURSIVE ThemeVars(_, _)
ThemeVars(themeVars, block) ==
    IF block = <<>> THEN themeVars
    ELSE LET d == Head(block)
         IN IF StartsWith(d.name, ColorDash) /\ Len(d.name) > Len(ColorDash)
            THEN LET colorName == SubSeq(d.name, Len(ColorDash) + 1, Len(d.name))
                     varReference == d.reference
                 IN ThemeVars(Put(themeVars, varReference,
                                  ColorSlash \o ReplaceChar(colorName, "-", "/")),
                              Tail(block))
            ELSE ThemeVars(themeVars, Tail(block))

\* parseVariableDefinitions, "Handle opacity values": what is appended to the
\* reference for the captured percentage (<<>> when there is none)
OpacitySuffixUnpadded(opacity) ==
    IF opacity # <<>> THEN << "_" >> \o opacity ELSE <<>>
OpacitySuffix(opacity) ==
    IF opacity # <<>>
    THEN IF Len(opacity) = 1 THEN << "_", "0" >> \o opacity ELSE << "_" >> \o opacity
    ELSE <<>>

\* The while loop of parseVariableDefinitions
RECURSIVE ParseInto(_, _)
ParseInto(variables, cssBlock) ==
    IF cssBlock = <<>> THEN variables
    ELSE LET d == Head(cssBlock)
             varName == Trim(d.name)
             opacity == d.opacity
             reference == Trim(d.reference) \o OpacitySuffix(opacity)
         IN ParseInto(Put(variables, varName, reference), Tail(cssBlock))

parseVariableDefinitions(cssBlock) == ParseInto(<<>>, cssBlock)

ConvertWithoutNamespace(cssVariableName) ==
    ReplaceChar(IF StartsWith(cssVariableName, << "-", "-" >>)
                THEN SubSeq(cssVariableName, 3, Len(cssVariableName))
                ELSE cssVariableName, "-", "/")
convertCSSVariableToFigmaName(cssVariableName) ==
    LET unprefixed == IF StartsWith(cssVariableName, << "-", "-" >>)
                      THEN SubSeq(cssVariableName, 3, Len(cssVariableName))
                      ELSE cssVariableName
        figmaName == ReplaceChar(unprefixed, "-", "/")
    IN IF StartsWith(figmaName, ColorSlash) THEN figmaName ELSE ColorSlash \o figmaName

\* s.replace(/color\//g, "")
RECURSIVE RemoveColorSlash(_)
RemoveColorSlash(s) ==
    IF s = <<>> THEN <<>>
    ELSE IF StartsWith(s, ColorSlash)
         THEN RemoveColorSlash(SubSeq(s, Len(ColorSlash) + 1, Len(s)))
         ELSE << Head(s) >> \o RemoveColorSlash(Tail(s))

\* "--color-" + finalVarName.replace(/color\//g, "").replace(/\//g, "-")
ThemeLinePrefix(finalVarName) ==
    << "-", "-" >> \o ColorDash \o ReplaceChar(RemoveColorSlash(finalVarName), "/", "-")

\* The text of a declaration up to its colon
LineStart(d) == << "-", "-" >> \o d.name \o << ":" >>

\* block.split(";").find(line => line.trim().indexOf(prefix) === 0): the
\* place of the first such declaration, 0 when there is none ("").
FindLine(block, prefix) ==
    LET hits == { i \in 1..Len(block) : StartsWith(LineStart(block[i]), prefix) }
    IN IF hits = {} THEN 0 ELSE CHOOSE i \in hits : \A j \in hits : i <= j

\* The body of the for-in loop for one key. threw: lightVars[varName] or
\* darkVars[varName] was an inherited function, on which
\* convertCSSVariableToFigmaName throws.
RECURSIVE CreateMappings(_, _, _, _, _)
CreateMappings(out, keys, css, lightVars, darkVars) ==
    IF keys = <<>> THEN out
    ELSE LET varName == Head(keys).key
         IN IF Truthy(lightVars, varName) /\ Truthy(darkVars, varName)
            THEN IF ~HasOwn(lightVars, varName) \/ ~HasOwn(darkVars, varName)
                 THEN out       \* TypeError, caught: what was pushed is returned
                 ELSE LET finalVarName == Head(keys).value
                          variable ==
                            [ themeMapping |-> FindLine(css.theme.declarations, ThemeLinePrefix(finalVarName)),
                              lightValue |-> FindLine(css.light.declarations, << "-", "-" >> \o varName \o << ":" >>),
                              darkValue |-> FindLine(css.dark.declarations, << "-", "-" >> \o varName \o << ":" >>),
                              variableName |-> finalVarName,
                              lightReference |-> convertCSSVariableToFigmaName(Own(lightVars, varName)),
                              darkReference |-> convertCSSVariableToFigmaName(Own(darkVars, varName)) ]
                      IN CreateMappings(Append(out, variable), Tail(keys), css,
                                        lightVars, darkVars)
            ELSE CreateMappings(out, Tail(keys), css, lightVars, darkVars)

ExtractWithLightForDark(css) ==
    IF ~css.theme.matched \/ ~css.light.matched THEN <<>>
    ELSE CreateMappings(<<>>, ThemeVars(<<>>, css.theme.declarations), css,
                        parseVariableDefinitions(css.light.declarations),
                        parseVariableDefinitions(IF css.dark.matched
                                                 THEN css.dark.declarations
                                                 ELSE css.light.declarations))

extractThemeVariables(css) ==
    IF ~css.theme.matched THEN <<>>
    ELSE IF ~css.light.matched \/ ~css.dark.matched THEN <<>>
    ELSE CreateMappings(<<>>, ThemeVars(<<>>, css.theme.declarations), css,
                        parseVariableDefinitions(css.light.declarations),
                        parseVariableDefinitions(css.dark.declarations))

ParsingComplete(success, results) ==
    [type |-> "parsing-complete", success |-> success, results |-> results]

\* parseCSSContent
parseCSSContent(css) ==
    LET found == extractThemeVariables(css)
    IN /\ themeVariables' = found
       /\ outbox' = Append(outbox,
            IF Len(found) = 0 THEN ParsingComplete(FALSE, NoResults)
            ELSE ParsingComplete(TRUE, [variables |-> found, totalFound |-> Len(found)]))

(***************************************************************************)
(* SpecParse: the theme mapper handling a parse-css request                *)
(***************************************************************************)

MaxDeclarations == 2     \* declarations in one block

kb == << "b" >>
kc == << "c" >>
kbBlank == << "b", " " >>

\* @theme declarations: --color-f / --color-g-h / --color-color-g referring
\* to b, c, "b " or constructor
ThemeDeclarations ==
    { Declaration(ColorDash \o n, r, <<>>) :
        n \in { << "f" >>, << "g", "-", "h" >>, ColorDash \o << "g" >> },
        r \in { kb, kc, kbBlank, Constructor } }

\* light / dark declarations: --b or --c set to var(--r-5) or to
\* --alpha(var(--w) / 5%)
ModeDeclarations ==
    { Declaration(n, v[1], v[2]) :
        n \in { kb, kc },
        v \in { << << "r", "-", "5" >>, <<>> >>, << << "w" >>, << "5" >> >> } }

Blocks(declarations) ==
    { NoBlock } \cup { Block(d) : d \in BoundedSeq(declarations, MaxDeclarations) }

ParseInit ==
    /\ call = NoCall /\ returned = Null /\ NothingElse
    /\ plugin = ThemeMapper
    /\ cssContent \in [ theme : Blocks(ThemeDeclarations),
                        light : Blocks(ModeDeclarations),
                        dark  : Blocks(ModeDeclarations) ]
    /\ themeVariables = <<>>
    /\ pc = "idle"
    /\ outbox = <<>>
    /\ request = NoRequest
    /\ trace = EmptyTrace
    /\ store = EmptyMap
    /\ colls = EmptyMap
    /\ localOrder = <<>>
    /\ collectionsLoaded = FALSE
    /\ uploadedJsonData = NoJson
    /\ batch = Null

ParseCss ==
    /\ plugin = ThemeMapper /\ cssContent # Null
    /\ pc = "idle"
    /\ pc' = "parsed"
    /\ parseCSSContent(cssContent)
    /\ UNCHANGED << store, colls, localOrder, request, trace, collectionsLoaded,
                    uploadedJsonData, batch, cssContent, plugin, call, returned,
                    later, clientStorage, loading, cleanup >>

(***************************************************************************)
(* The functions that read names and percentages, called on their own      *)
(***************************************************************************)

\* The plugin at rest: nothing requested, nothing posted, an empty file
AtRest ==
    /\ NothingElse
    /\ store = EmptyMap /\ colls = EmptyMap /\ localOrder = <<>>
    /\ request = NoRequest /\ outbox = <<>> /\ trace = EmptyTrace /\ pc = "idle"
    /\ collectionsLoaded = FALSE /\ uploadedJsonData = NoJson /\ batch = Null
    /\ cssContent = Null /\ themeVariables = <<>>

\* parseInt of a string of decimal digits
RECURSIVE ParseInt(_)
ParseInt(digits) ==
    IF digits = <<>> THEN 0
    ELSE 10 * ParseInt(Front(digits))
           + (CHOOSE n \in 0..9 : DigitChars[n + 1] = Last(digits))

\* part_000 convertToFigmaVariableName
convertToFigmaVariableName(cssVariableName) ==
    ReplaceChar(SubSeq(cssVariableName, 3, Len(cssVariableName)), "-", "/")

\* part_000 extractAlphaFunctions: matches are the matches of alphaRegex in
\* the text, each with its two groups (the variable with its dashes, the
\* digits of the percentage).
extractAlphaFunctions(matches) ==
    [ i \in 1..Len(matches) |->
        [ original      |-> i,
          variable      |-> matches[i].variable,
          opacity       |-> ParseInt(matches[i].opacity),
          cssVariable   |-> matches[i].variable,
          figmaVariable |-> convertToFigmaVariableName(matches[i].variable) ] ]

\* The names handed to convertCSSVariableToFigmaName: with and without the
\* leading dashes, with and without color- in front
ConvertNames ==
    { d \o c \o n : d \in { <<>>, << "-", "-" >> }, c \in { <<>>, ColorDash },
                    n \in { << "r", "-", "5" >>, << "w", "_", "0", "5" >> } }

\* Definitions of --b and --c that point to --w or to "w - r" with blanks
\* around, with no percentage or with 0%, 5%, 50%, 100%
PercentDeclarations ==
    { Declaration(n, r, p) :
        n \in { kb, kc },
        r \in { << "w" >>, << " ", "w", "-", "r", " " >> },
        p \in { <<>>, << "0" >>, << "5" >>, << "5", "0" >>, << "1", "0", "0" >> } }

\* --alpha(var(--b-5) / p%) and --alpha(var(--color-b) / p%), p up to 150
AlphaMatches ==
    [ variable : { << "-", "-", "b", "-", "5" >>, << "-", "-" >> \o ColorDash \o << "b" >> },
      opacity  : { << "5" >>, << "1", "0", "0" >>, << "1", "5", "0" >> } ]

TextCallInit ==
    /\ AtRest
    /\ returned = Null
    /\ \/ /\ plugin = ThemeMapper
          /\ call \in [ fn : { "convertCSSVariableToFigmaName" },
                        cssVariableName : ConvertNames ]
       \/ /\ plugin = ThemeMapper
          /\ call \in [ fn : { "parseVariableDefinitions" },
                        cssBlock : BoundedSeq(PercentDeclarations, MaxDeclarations) ]
       \/ /\ plugin = OpacityGenerator
          /\ call \in [ fn : { "extractAlphaFunctions" },
                        matches : BoundedSeq(AlphaMatches, MaxDeclarations) ]

ConvertName ==
    /\ call.fn = "convertCSSVariableToFigmaName"
    /\ returned = Null
    /\ returned' = [value |-> convertCSSVariableToFigmaName(call.cssVariableName)]
    /\ UNCHANGED << store, colls, localOrder, request, outbox, trace, pc,
                    collectionsLoaded, uploadedJsonData, batch, cssContent,
                    themeVariables, plugin, call,
                    later, clientStorage, loading, cleanup >>

ParseDefinitions ==
    /\ call.fn = "parseVariableDefinitions"
    /\ returned = Null
    /\ returned' = [value |-> parseVariableDefinitions(call.cssBlock)]
    /\ UNCHANGED << store, colls, localOrder, request, outbox, trace, pc,
                    collectionsLoaded, uploadedJsonData, batch, cssContent,
                    themeVariables, plugin, call,
                    later, clientStorage, loading, cleanup >>

ExtractAlpha ==
    /\ call.fn = "extractAlphaFunctions"
    /\ returned = Null
    /\ returned' = [value |-> extractAlphaFunctions(call.matches)]
    /\ UNCHANGED << store, colls, localOrder, request, outbox, trace, pc,
                    collectionsLoaded, uploadedJsonData, batch, cssContent,
                    themeVariables, plugin, call,
                    later, clientStorage, loading, cleanup >>

\* part_000 validateVariables, the loop: res holds missing, found, details and
\* processedVariables (the derived names seen). baseColor is what
\* getVariableValue gives: the hex form of a colour, the raw value, "Unknown".
RECURSIVE ValidateInto(_, _)
ValidateInto(res, alphaFunctions) ==
    IF alphaFunctions = <<>> THEN res
    ELSE
    LET alphaFunc == Head(alphaFunctions)
        variableMap == BuildVariableMap
        baseVariableName == alphaFunc.figmaVariable
        newVariableName == DerivedName(baseVariableName, alphaFunc.opacity)
        base == store[variableMap[baseVariableName]]
        modeId == colls[variableMap[baseVariableName][1]].defaultModeId
        colorValue ==
            IF modeId \notin DOMAIN base.valuesByMode THEN [kind |-> "Unknown"]
            ELSE IF base.resolvedType = "COLOR" /\ base.valuesByMode[modeId].kind = "color"
                 THEN [kind |-> "hex", rgb |-> base.valuesByMode[modeId].rgb]
                 ELSE base.valuesByMode[modeId]
        seen == [res EXCEPT !.processedVariables = @ \cup { newVariableName }]
    IN
    IF newVariableName \in res.processedVariables
    THEN \* "Skip duplicate, but we could track count here if needed"
         ValidateInto(res, Tail(alphaFunctions))
    ELSE IF baseVariableName \in DOMAIN variableMap
    THEN ValidateInto(
            [seen EXCEPT
               !.found = Append(@, [ baseVariable |-> baseVariableName,
                                     newVariable  |-> newVariableName,
                                     opacity      |-> alphaFunc.opacity,
                                     baseColor    |-> colorValue,
                                     cssFunction  |-> alphaFunc.original,
                                     targetExists |-> newVariableName \in DOMAIN variableMap ]),
               !.details = Append(@, [ status       |-> "found",
                                       baseVariable |-> baseVariableName,
                                       newVariable  |-> newVariableName,
                                       opacity      |-> alphaFunc.opacity,
                                       message      |-> colorValue ])],
            Tail(alphaFunctions))
    ELSE ValidateInto(
            [seen EXCEPT
               !.missing = Append(@, [ baseVariable |-> baseVariableName,
                                       newVariable  |-> newVariableName,
                                       opacity      |-> alphaFunc.opacity,
                                       cssFunction  |-> alphaFunc.original ]),
               !.details = Append(@, [ status       |-> "missing",
                                       baseVariable |-> baseVariableName,
                                       newVariable  |-> newVariableName,
                                       opacity      |-> alphaFunc.opacity,
                                       message      |-> baseVariableName ])],
            Tail(alphaFunctions))

\* part_000 validateVariables: the three lists, each sorted by newVariable
validateVariables(alphaFunctions) ==
    LET res == ValidateInto([ missing |-> <<>>, found |-> <<>>, details |-> <<>>,
                              processedVariables |-> {} ], alphaFunctions)
    IN [ missing |-> SortBy(res.missing, "newVariable"),
         found   |-> SortBy(res.found, "newVariable"),
         details |-> SortBy(res.details, "newVariable") ]

\* The opacity generator receives parse-css for a text whose alpha functions
\* name --a or --b with 5%, 05% or 10%, in a file as AlphaInit describes it.
AlphaParseInit ==
    /\ NothingElse
    /\ plugin = OpacityGenerator
    /\ returned = Null
    /\ call \in [ fn : { "handleCSSParsing" },
                  matches : BoundedSeq([ variable : { << "-", "-" >> \o b : b \in AlphaBases },
                                         opacity  : { << "5" >>, << "0", "5" >>,
                                                      << "1", "0" >> } ],
                                       MaxItems) ]
    /\ colls = ("T" :> OneMode("T")) @@ ("O" :> OneMode("O"))
    /\ localOrder = << "O", "T" >>
    /\ store \in { AlphaStore(bases, pre) :
                     bases \in [AlphaBases -> BaseStates], pre \in SUBSET PreExisting }
    /\ request = NoRequest /\ outbox = <<>> /\ trace = EmptyTrace /\ pc = "idle"
    /\ collectionsLoaded = FALSE /\ uploadedJsonData = NoJson /\ batch = Null
    /\ cssContent = Null /\ themeVariables = <<>>

\* part_000 handleCSSParsing
handleCSSParsing ==
    /\ call.fn = "handleCSSParsing"
    /\ returned = Null
    /\ LET alphaFunctions == extractAlphaFunctions(call.matches)
           validationResults == validateVariables(alphaFunctions)
       IN outbox' = Append(outbox,
            IF Len(alphaFunctions) = 0 THEN ParsingComplete(FALSE, NoResults)
            ELSE ParsingComplete(TRUE, [ totalFound |-> Len(alphaFunctions),
                                         missing |-> validationResults.missing,
                                         found   |-> validationResults.found,
                                         details |-> validationResults.details ]))
    /\ returned' = [value |-> Null]
    /\ UNCHANGED << store, colls, localOrder, request, trace, pc,
                    collectionsLoaded, uploadedJsonData, batch, cssContent,
                    themeVariables, plugin, call,
                    later, clientStorage, loading, cleanup >>

ParseNext == ParseCss \/ ConvertName \/ ParseDefinitions \/ ExtractAlpha \/ handleCSSParsing

TextInit == ParseInit \/ TextCallInit \/ AlphaParseInit

SpecParse == TextInit /\ [][ParseNext]_vars

(***************************************************************************)
(* SpecLibrary: the theme mapper loading the library collections, and      *)
(* closing                                                                 *)
(*                                                                         *)
(* loading.libs[k] is the call processLibraryCollection(k): its pc, the     *)
(* imports that have not settled, and its local importedVariableIds.       *)
(* A write of clientStorage in flight is [by, value]: who called setAsync   *)
(* and with what.  An imported variable is in the file under the id         *)
(* << key of its collection, name >>.                                       *)
(***************************************************************************)

MaxLibraries == 2    \* library collections the host may offer

LoadLibraryKeys == { "L", "M" }

\* What getVariablesInLibraryCollectionAsync may answer
LibraryVariableLists == SUBSET SourceNames

LibraryInit ==
    /\ AtRest
    /\ plugin = ThemeMapper
    /\ call = NoCall /\ returned = Null

\* figma.ui.onmessage, case "get-collections": loadCollections up to the
\* request for the library collections
GetCollections ==
    /\ plugin = ThemeMapper
    /\ loading.pc = "none"
    /\ cleanup.pc # "closed"
    /\ loading' = [pc |-> "requested", libs |-> EmptyMap]
    /\ UNCHANGED << store, colls, localOrder, request, outbox, trace, pc,
                    collectionsLoaded, uploadedJsonData, batch, cssContent,
                    themeVariables, plugin, call, returned, later, clientStorage,
                    cleanup >>

\* The callbacks on getAvailableLibraryVariableCollectionsAsync() of
\* loadCollections: processLibraryCollection is called for every collection,
\* or the catch callback posts the local collections.
AvailableLibrariesSettled ==
    /\ loading.pc = "requested"
    /\ cleanup.pc # "closed"
    /\ \/ /\ outbox' = Append(outbox, CollectionsLoadedMessage(TRUE))
          /\ loading' = [loading EXCEPT !.pc = "done"]
       \/ /\ \E libraryCollections \in SUBSET LoadLibraryKeys :
               /\ Cardinality(libraryCollections) <= MaxLibraries
               /\ loading' = [ pc |-> "processing",
                               libs |-> [ k \in libraryCollections |->
                                            [ pc |-> "fetching", pending |-> {},
                                              importedVariableIds |-> <<>> ] ] ]
          /\ outbox' = outbox
    /\ UNCHANGED << store, colls, localOrder, request, trace, pc,
                    collectionsLoaded, uploadedJsonData, batch, cssContent,
                    themeVariables, plugin, call, returned, later, clientStorage,
                    cleanup >>

\* processLibraryCollection, the callbacks on
\* getVariablesInLibraryCollectionAsync(): an import is issued for every
\* variable, or the outer catch returns the collection with its error.
LibraryVariablesFetched ==
    /\ loading.pc = "processing"
    /\ cleanup.pc # "closed"
    /\ \E k \in DOMAIN loading.libs :
        /\ loading.libs[k].pc = "fetching"
        /\ \/ loading' = [loading EXCEPT !.libs[k].pc = "settled"]
           \/ \E variables \in LibraryVariableLists :
                 loading' = [loading EXCEPT !.libs[k].pc = "importing",
                                            !.libs[k].pending = variables]
    /\ UNCHANGED << store, colls, localOrder, request, outbox, trace, pc,
                    collectionsLoaded, uploadedJsonData, batch, cssContent,
                    themeVariables, plugin, call, returned, later, clientStorage,
                    cleanup >>

\* processLibraryCollection, the callbacks on importVariableByKeyAsync(): the
\* id of the imported variable is pushed to the collection's
\* importedVariableIds, or the failure is logged.
VariableImportSettled ==
    /\ loading.pc = "processing"
    /\ cleanup.pc # "closed"
    /\ \E k \in DOMAIN loading.libs :
        /\ loading.libs[k].pc = "importing"
        /\ \E variable \in loading.libs[k].pending :
            \/ /\ loading' = [loading EXCEPT
                                !.libs[k].pending = @ \ { variable },
                                !.libs[k].importedVariableIds = Append(@, << k, variable >>)]
               /\ store' = (<< k, variable >> :>
                               Variable("COLOR", (<< k, 1 >> :> ColorValue(variable, 100))))
                           @@ store
            \/ /\ loading' = [loading EXCEPT !.libs[k].pending = @ \ { variable }]
               /\ store' = store
    /\ UNCHANGED << colls, localOrder, request, outbox, trace, pc,
                    collectionsLoaded, uploadedJsonData, batch, cssContent,
                    themeVariables, plugin, call, returned, later, clientStorage,
                    cleanup >>

\* processLibraryCollection, the callback on Promise.all(importPromises):
\* setAsync("importedVariableIds", importedVariableIds) is called with the
\* list of this collection and not waited for; the collection info is
\* returned.
LibraryImportsSettled ==
    /\ loading.pc = "processing"
    /\ cleanup.pc # "closed"
    /\ \E k \in DOMAIN loading.libs :
        /\ loading.libs[k].pc = "importing"
        /\ loading.libs[k].pending = {}
        /\ clientStorage' = [clientStorage EXCEPT !.writes = @ \cup
                                { [ by |-> k,
                                    value |-> loading.libs[k].importedVariableIds ] }]
        /\ loading' = [loading EXCEPT !.libs[k].pc = "settled"]
    /\ UNCHANGED << store, colls, localOrder, request, outbox, trace, pc,
                    collectionsLoaded, uploadedJsonData, batch, cssContent,
                    themeVariables, plugin, call, returned, later, cleanup >>

\* loadCollections, the callback on Promise.all(libraryPromises): the
\* collections-loaded message is posted and collectionsLoaded set.
AllLibrariesSettled ==
    /\ loading.pc = "processing"
    /\ cleanup.pc # "closed"
    /\ \A k \in DOMAIN loading.libs : loading.libs[k].pc = "settled"
    /\ outbox' = Append(outbox, CollectionsLoadedMessage(TRUE))
    /\ collectionsLoaded' = TRUE
    /\ loading' = [loading EXCEPT !.pc = "done"]
    /\ UNCHANGED << store, colls, localOrder, request, trace, pc,
                    uploadedJsonData, batch, cssContent,
                    themeVariables, plugin, call, returned, later, clientStorage,
                    cleanup >>

\* figma.clientStorage settles a setAsync: the value is stored, or the promise
\* is rejected (the catch callbacks log it).  The cleanup routine waits for
\* its own write; it is settled either way.
StorageWriteSettled ==
    /\ cleanup.pc # "closed"
    /\ \E w \in clientStorage.writes :
        /\ \/ clientStorage' = [clientStorage EXCEPT !.writes = @ \ { w },
                                                     !.ids = w.value]
           \/ clientStorage' = [clientStorage EXCEPT !.writes = @ \ { w },
                                                     !.rejected = TRUE]
        /\ cleanup' = IF w.by = "cleanup" THEN [cleanup EXCEPT !.pc = "settled"]
                      ELSE cleanup
    /\ UNCHANGED << store, colls, localOrder, request, outbox, trace, pc,
                    collectionsLoaded, uploadedJsonData, batch, cssContent,
                    themeVariables, plugin, call, returned, later, loading >>

\* figma.ui.onmessage, case "close-plugin": cleanupImportedVariables up to
\* the read of clientStorage
ClosePlugin ==
    /\ plugin = ThemeMapper
    /\ cleanup.pc = "none"
    /\ cleanup' = [pc |-> "reading", removed |-> {}, kept |-> {}]
    /\ UNCHANGED << store, colls, localOrder, request, outbox, trace, pc,
                    collectionsLoaded, uploadedJsonData, batch, cssContent,
                    themeVariables, plugin, call, returned, later, clientStorage,
                    loading >>

\* ids.forEach of cleanupImportedVariables over the first n ids: a variable
\* that is still in the file is removed unless the host refuses (inUse)
Removable(ids, n, inUse) ==
    { ids[i] : i \in 1..n } \cap ((DOMAIN store) \ inUse)

\* cleanupImportedVariables, the callbacks on getAsync("importedVariableIds"):
\* nothing is stored and the routine is finished; or the variables are
\* removed one by one (the host refusing those in use) and setAsync clears
\* the list; or getVariableById throws at the thrownAt-th id, or the read was
\* rejected, and the final catch logs it.
StorageReadSettled ==
    /\ cleanup.pc = "reading"
    /\ \/ /\ cleanup' = [cleanup EXCEPT !.pc = "settled"]
          /\ UNCHANGED << store, clientStorage >>
       \/ LET ids == clientStorage.ids
          IN IF Len(ids) = 0
             THEN /\ cleanup' = [cleanup EXCEPT !.pc = "settled"]
                  /\ UNCHANGED << store, clientStorage >>
             ELSE \E inUse \in SUBSET Range(ids), thrownAt \in 0..Len(ids) :
                    LET n == IF thrownAt = 0 THEN Len(ids) ELSE thrownAt - 1
                        removed == Removable(ids, n, inUse)
                        kept == { ids[i] : i \in 1..n } \cap (DOMAIN store) \cap inUse
                    IN /\ store' = [ id \in (DOMAIN store) \ removed |-> store[id] ]
                       /\ IF thrownAt = 0
                          THEN /\ clientStorage' =
                                     [clientStorage EXCEPT !.writes = @ \cup
                                        { [by |-> "cleanup", value |-> <<>>] }]
                               /\ cleanup' = [ pc |-> "clearing", removed |-> removed,
                                               kept |-> kept ]
                          ELSE /\ clientStorage' = clientStorage
                               /\ cleanup' = [ pc |-> "settled", removed |-> removed,
                                               kept |-> kept ]
    /\ UNCHANGED << colls, localOrder, request, outbox, trace, pc,
                    collectionsLoaded, uploadedJsonData, batch, cssContent,
                    themeVariables, plugin, call, returned, later, loading >>

CloseWithoutWaiting ==
    /\ cleanup.pc \in { "reading", "clearing", "settled" }
    /\ cleanup' = [cleanup EXCEPT !.pc = "closed"]
    /\ UNCHANGED << store, colls, localOrder, request, outbox, trace, pc,
                    collectionsLoaded, uploadedJsonData, batch, cssContent,
                    themeVariables, plugin, call, returned, later, clientStorage,
                    loading >>

\* The callback on cleanupImportedVariables() of case "close-plugin":
\* figma.closePlugin()
CloseAfterCleanup ==
    /\ cleanup.pc = "settled"
    /\ cleanup' = [cleanup EXCEPT !.pc = "closed"]
    /\ UNCHANGED << store, colls, localOrder, request, outbox, trace, pc,
                    collectionsLoaded, uploadedJsonData, batch, cssContent,
                    themeVariables, plugin, call, returned, later, clientStorage,
                    loading >>

LibraryNext ==
    \/ GetCollections
    \/ AvailableLibrariesSettled
    \/ LibraryVariablesFetched
    \/ VariableImportSettled
    \/ LibraryImportsSettled
    \/ AllLibrariesSettled
    \/ StorageWriteSettled
    \/ ClosePlugin
    \/ StorageReadSettled
    \/ CloseAfterCleanup

SpecLibrary == LibraryInit /\ [][LibraryNext]_vars

\* The host settles every promise it has returned and the callbacks of a
\* settled promise run: the steps of the cleanup are taken when they can be.
SpecLibraryLive ==
    /\ SpecLibrary
    /\ WF_vars(StorageReadSettled)
    /\ WF_vars(StorageWriteSettled)
    /\ WF_vars(CloseAfterCleanup)

(***************************************************************************)
(* Spec: either plugin handling its create-variables requests              *)
(***************************************************************************)

Init == AlphaInit \/ ThemeInit

Next == AlphaNext \/ ThemeNext

Spec == Init /\ [][Next]_vars

(***************************************************************************)
(* Properties of the reported result                                       *)
(***************************************************************************)

\* The identifying key of an item or of a result entry
Key(e) == IF "newVariable" \in DOMAIN e THEN e.newVariable ELSE e.variableName

Keys(list) == [ i \in 1..Len(list) |-> Key(list[i]) ]

Count(x, s) == Cardinality({ i \in 1..Len(s) : s[i] = x })

\* An item or a result entry without what the engines add to it
Fields(e) ==
    IF "newVariable" \in DOMAIN e
    THEN [ baseVariable |-> e.baseVariable, newVariable |-> e.newVariable,
           opacity |-> e.opacity, cssFunction |-> e.cssFunction ]
    ELSE [ variableName |-> e.variableName, lightReference |-> e.lightReference,
           darkReference |-> e.darkReference ]

FieldsOf(list) == [ i \in 1..Len(list) |-> Fields(list[i]) ]

\* A request has ended with a creation-complete message that carries results
Reported == trace.status = "reported"

Tally == Last(outbox).results

Outcomes == Tally.created \o Tally.updated \o Tally.failed

\* The calls of createVariable that threw
ThrownCreates == SelectSeq(trace.creates, LAMBDA n : n \in request.env.createFails)

\* The source variables of an item are not all there when the request starts
Unresolved(e) ==
    IF plugin = OpacityGenerator
    THEN ~\E id \in DOMAIN trace.before :
            /\ id[2] = e.baseVariable
            /\ trace.before[id].resolvedType = "COLOR"
    ELSE ~({ e.lightReference, e.darkReference }
              \subseteq NamesIn(trace.before, request.selectedSourceCollectionId))

\* The variable to update lives in another collection than the selected one,
\* whose mode the host refuses for it
WrongCollection(e) ==
    \E id \in DOMAIN trace.before :
        /\ id[2] = Key(e)
        /\ plugin = OpacityGenerator
        /\ id[1] # request.selectedCollectionId

\* C1: when a result is reported, every item of the work list as processed
\* (deduplicated by the opacity generator, as received by the theme mapper)
\* has been taken by the loop and has exactly one entry in created, updated
\* and failed together, so the three lengths add up to the number of
\* processed items; an item whose createVariable call threw or whose value
\* write throws is in failed and in failed only, and the items after it are
\* processed all the same. ("Resolves" includes obtaining the source
\* variables: an item whose import is rejected is in failed.)
C1_OneOutcomePerItem ==
    Reported =>
        /\ Len(Tally.created) + Len(Tally.updated) + Len(Tally.failed) = Len(trace.unique)
        /\ Len(trace.processed) = Len(trace.unique)
        /\ \A f \in Range(FieldsOf(trace.unique)) :
              /\ Count(f, FieldsOf(Outcomes)) = Count(f, FieldsOf(trace.unique))
              /\ Count(Key(f), trace.processed) = Count(Key(f), Keys(trace.unique))
        /\ \A e \in Range(Tally.created) \cup Range(Tally.updated) :
              Key(e) \notin request.env.setFails
        /\ \A n \in Range(ThrownCreates) :
              /\ Count(n, ThrownCreates) <= Count(n, Keys(Tally.failed))
              /\ Count(n, Keys(Tally.created)) = 0
        /\ \A e \in Range(Tally.failed) :
              \/ Key(e) \in request.env.createFails \cup request.env.setFails
              \/ Unresolved(e)
              \/ WrongCollection(e)
              \/ plugin = ThemeMapper /\ request.sourceCollectionType = "library"

\* C1 witness: of three items the first called createVariable, which threw,
\* and is the one failure; the two after it were created or updated.
C1_Witness ==
    /\ Reported
    /\ Len(trace.unique) = 3
    /\ Len(ThrownCreates) = 1
    /\ ThrownCreates[1] = trace.processed[1]
    /\ Len(Tally.failed) = 1
    /\ Len(Tally.created) + Len(Tally.updated) = 2

\* C2 (as claimed): in every reported result the success flag is true
\* exactly when the failed list is empty.
C2_SuccessIffNoFailure ==
    Reported => (Last(outbox).success <=> Len(Tally.failed) = 0)

\* C3 (as claimed): no name occurs more than once in created, updated and
\* failed taken together.
C3_NoNameTwice ==
    Reported => \A n \in Range(Keys(Outcomes)) : Count(n, Keys(Outcomes)) = 1

FirstWithKey(list, key) ==
    list[CHOOSE i \in 1..Len(list) :
            /\ Key(list[i]) = key
            /\ \A h \in 1..(i - 1) : Key(list[h]) # key]

\* C4 (as claimed): the loop takes exactly one item for each key of the work
\* list received; that item has the fields of the key's first occurrence and,
\* where items carry a duplicateCount, the number of occurrences of the key.
C4_OneItemPerKey ==
    Reported =>
        LET received == request.variablesToCreate
        IN \A i \in 1..Len(received) :
              /\ Count(Key(received[i]), trace.processed) = 1
              /\ \E j \in 1..Len(trace.unique) :
                    /\ Fields(trace.unique[j]) = Fields(FirstWithKey(received, Key(received[i])))
                    /\ "duplicateCount" \in DOMAIN trace.unique[j]
                          => trace.unique[j].duplicateCount = Count(Key(received[i]), Keys(received))

\* The names that several items of the received work list target and that
\* the existing-entities snapshot does not hold when the request starts
SharedNewNames ==
    { n \in Range(Keys(request.variablesToCreate)) :
        /\ Count(n, Keys(request.variablesToCreate)) >= 2
        /\ n \notin trace.known }

Ascending(names) ==
    \A i \in 1..Len(names) : \A j \in (i + 1)..Len(names) :
        LocaleCompare(names[i], names[j]) <= 0

\* C6 (as claimed): created, updated and failed are each in ascending order
\* of the key, and the items were processed in that order.
C6_ResultsSorted ==
    Reported =>
        /\ Ascending(Keys(Tally.created))
        /\ Ascending(Keys(Tally.updated))
        /\ Ascending(Keys(Tally.failed))
        /\ Ascending(trace.processed)

\* The entries of list stand in the order of their items in the work list
InWorkListOrder(list) ==
    LET place(e) == CHOOSE i \in 1..Len(request.variablesToCreate) :
                       /\ Fields(request.variablesToCreate[i]) = Fields(e)
                       /\ \A h \in 1..(i - 1) :
                             Fields(request.variablesToCreate[h]) # Fields(e)
    IN \A i \in 1..Len(list) : \A j \in (i + 1)..Len(list) :
          place(list[i]) <= place(list[j])

\* C7 (as claimed): the order of the reported entries does not depend on the
\* order in which the imports complete. The imports may complete in the order
\* of their issue, which leaves created and updated in work-list order, so the
\* claim says that they are in that order whenever a library request reports.
C7_OrderIndependentOfCompletion ==
    (Reported /\ request.sourceCollectionType = "library") =>
        /\ InWorkListOrder(Tally.created)
        /\ InWorkListOrder(Tally.updated)

CreationCompleteMessages ==
    SelectSeq(outbox, LAMBDA m : m.type = "creation-complete")

\* C8 (as claimed): a create-variables request that has run to its end (no
\* callback of it is outstanding) has posted exactly one creation-complete
\* message, and the message carries created, updated and failed. Stated for
\* the requests that reached the processing of the items.
C8_OneCompletionMessage ==
    (trace.n > 0 /\ pc = "idle" /\ batch.targetId # "") =>
        /\ Len(CreationCompleteMessages) = trace.n
        /\ Last(CreationCompleteMessages).results # NoResults

(***************************************************************************)
(* Properties of the theme parser                                          *)
(***************************************************************************)

Parsed == pc = "parsed"

\* The keys a scope of the source text names: the custom properties the
\* @theme block refers to from its --color-* declarations, and those a mode
\* block defines. Blanks around a name are not part of it.
ReferencedKeys(block) ==
    { Trim(d.reference) :
        d \in { x \in Range(block.declarations) :
                  StartsWith(x.name, ColorDash) /\ Len(x.name) > Len(ColorDash) } }

DefinedKeys(block) == { Trim(d.name) : d \in Range(block.declarations) }

KeysInAllScopes ==
    ReferencedKeys(cssContent.theme) \cap DefinedKeys(cssContent.light)
        \cap DefinedKeys(cssContent.dark)

\* The canonical names of the --color-* declarations that refer to key
CanonicalNamesFor(key) ==
    { ColorSlash \o ReplaceChar(SubSeq(d.name, Len(ColorDash) + 1, Len(d.name)), "-", "/") :
        d \in { x \in Range(cssContent.theme.declarations) :
                  /\ StartsWith(x.name, ColorDash) /\ Len(x.name) > Len(ColorDash)
                  /\ Trim(x.reference) = key } }

\* C9 (as claimed): the parser emits a mapping for a key exactly when the
\* key is referenced in the @theme block and defined in the light and in the
\* dark block.
C9_MappingIffInAllScopes ==
    Parsed =>
        /\ \A key \in KeysInAllScopes :
              \E i \in 1..Len(themeVariables) :
                  themeVariables[i].variableName \in CanonicalNamesFor(key)
        /\ \A i \in 1..Len(themeVariables) :
              \E key \in KeysInAllScopes :
                  themeVariables[i].variableName \in CanonicalNamesFor(key)

\* C10 (as claimed): no two mappings of one parse have the same variableName.
C10_UniqueCanonicalName ==
    Parsed =>
        \A i \in 1..Len(themeVariables) : \A j \in (i + 1)..Len(themeVariables) :
            themeVariables[i].variableName # themeVariables[j].variableName

(***************************************************************************)
(* SpecResolve: the lookups of a source variable, called on their own      *)
(***************************************************************************)

MaxSourceNames == 2      \* names in the source dataset of a lookup

Suffix100 == << "_", "1", "0", "0" >>

cBlack == ColorSlash \o Black
cWhite == ColorSlash \o White

\* The names looked up: plain, without the prefix, with the _100 suffix, black
\* and white with a step after them, black as the last of three segments and
\* of two, and Black unprefixed.
LookupNames ==
    { ra, << "a" >>, ra \o Suffix100,
      cBlack \o << "/", "5" >>, cWhite \o << "/", "5" >>,
      ra \o << "/" >> \o Black,
      << "a", "/" >> \o Black,
      << "B" >> \o Tail(Black) }

\* The names a source may hold: those, and the stepless colours
StoredNames == LookupNames \cup { cBlack, cWhite, ColorSlash \o << "B" >> \o Tail(Black) }

ResolveInit ==
    /\ plugin = ThemeMapper
    /\ AtRest
    /\ call \in [ fn : { "lookup" }, name : LookupNames,
                   source : SmallSubsets(StoredNames, MaxSourceNames) ]
    /\ returned = Null

\* The three lookups the processing functions use, on the same name and source
Resolve ==
    /\ returned = Null
    /\ returned' = [ json    |-> findVariableKeyInJson(call.source, call.name),
                     local   |-> findSourceVariable(call.source, call.name),
                     library |-> LookupLibraryVariable(call.source, call.name) ]
    /\ UNCHANGED << store, colls, localOrder, request, outbox, trace, pc,
                    collectionsLoaded, uploadedJsonData, batch, cssContent,
                    themeVariables, plugin, call,
                    later, clientStorage, loading, cleanup >>

ResolveNext == Resolve

SpecResolve == ResolveInit /\ [][ResolveNext]_vars

Resolved == returned # Null

\* C11 (as claimed): when the source holds the normalized name itself (the
\* name without a trailing _100), the flat-dataset lookup and the live-store
\* lookup return the entry of exactly that name, whatever else the source
\* holds.
C11_ExactMatchWins ==
    (Resolved /\ Strip100(call.name) \in call.source) =>
        /\ returned.json = Strip100(call.name)
        /\ returned.local = Strip100(call.name)

\* C12 (as claimed): color/black/<step> and color/white/<step>, looked up in
\* a source that holds color/black (color/white) and not the stepped name,
\* resolve to color/black (color/white) in both lookups.
C12_SteppedBlackResolves ==
    \A stepless \in { cBlack, cWhite } :
        (Resolved /\ call.name = stepless \o << "/", "5" >>
            /\ call.name \notin call.source /\ stepless \in call.source) =>
                /\ returned.json = stepless
                /\ returned.local = stepless

\* C13 (as claimed): each of the three lookups gives the same result for a
\* name and for the name with _100 appended.
C13_Suffix100Ignored ==
    Resolved =>
        /\ findVariableKeyInJson(call.source, call.name \o Suffix100) = returned.json
        /\ findSourceVariable(call.source, call.name \o Suffix100) = returned.local
        /\ LookupLibraryVariable(call.source, call.name \o Suffix100) = returned.library

(***************************************************************************)
(* Properties of the functions that read names and percentages             *)
(***************************************************************************)

Called(fn) == call.fn = fn /\ returned # Null

\* The last declaration of a block that defines key
LastDefinition(block, key) ==
    block[CHOOSE i \in 1..Len(block) :
            /\ Trim(block[i].name) = key
            /\ \A j \in (i + 1)..Len(block) : Trim(block[j].name) # key]

\* Whether a block holds a definition of key
Defines(block, key) == \E d \in Range(block) : Trim(d.name) = key

\* The name a definition points to, with _ and the percentage in two digits
\* when it carries one
PointedTo(d) ==
    Trim(d.reference) \o
        (IF d.opacity = <<>> THEN <<>>
         ELSE LET p == ParseInt(d.opacity)
              IN << "_" >> \o (IF p < 10 THEN << "0" >> ELSE <<>>) \o NumberToString(p))

\* C14: every definition of a light or dark block is stored under its name,
\* and what is stored is the referenced name followed, when the definition
\* carries a percentage p, by _ and p in at least two digits (_00, _05, _50,
\* _100), and by nothing when it carries none.
C14_PercentagePadded ==
    Called("parseVariableDefinitions") =>
        /\ \A d \in Range(call.cssBlock) : HasOwn(returned.value, Trim(d.name))
        /\ \A e \in Range(returned.value) :
              e.value = PointedTo(LastDefinition(call.cssBlock, e.key))

\* C14 witness: a block with a 5% and a 100% definition has been read.
C14_Witness ==
    /\ Called("parseVariableDefinitions")
    /\ \E e \in Range(returned.value) : EndsWith(e.value, << "_", "0", "5" >>)
    /\ \E e \in Range(returned.value) : EndsWith(e.value, Suffix100)

\* toCanonical as the specification words it
ToCanonical(name) ==
    LET body == IF Len(name) >= 2 /\ name[1] = "-" /\ name[2] = "-"
                THEN [ i \in 1..(Len(name) - 2) |-> name[i + 2] ]
                ELSE name
        slashed == [ i \in 1..Len(body) |-> IF body[i] = "-" THEN "/" ELSE body[i] ]
    IN IF Len(slashed) >= 6 /\ SubSeq(slashed, 1, 6) = ColorSlash
       THEN slashed ELSE ColorSlash \o slashed

IsColorDeclaration(d) == StartsWith(d.name, ColorDash) /\ Len(d.name) > Len(ColorDash)

\* The canonical name of a --color-* declaration of the @theme block
CanonicalOf(d) ==
    ColorSlash \o ReplaceChar(SubSeq(d.name, Len(ColorDash) + 1, Len(d.name)), "-", "/")

\* C15: convertCSSVariableToFigmaName strips a leading --, turns every
\* hyphen into a slash and puts color/ in front unless the result starts with
\* it; and the lightReference and darkReference of every mapping the parser
\* emits are that conversion of what the light and the dark block point the
\* key to.
C15_ReferencesAreCanonical ==
    /\ Called("convertCSSVariableToFigmaName") =>
          returned.value = ToCanonical(call.cssVariableName)
    /\ Parsed =>
          \A m \in Range(themeVariables) :
              \E t \in { d \in Range(cssContent.theme.declarations) : IsColorDeclaration(d) } :
                  /\ CanonicalOf(t) = m.variableName
                  /\ Defines(cssContent.light.declarations, t.reference)
                  /\ Defines(cssContent.dark.declarations, t.reference)
                  /\ m.lightReference = ToCanonical(PointedTo(
                         LastDefinition(cssContent.light.declarations, t.reference)))
                  /\ m.darkReference = ToCanonical(PointedTo(
                         LastDefinition(cssContent.dark.declarations, t.reference)))

\* C15 witness: the parser has emitted a mapping whose light block points the
\* key to --r-5 and whose lightReference is color/r/5.
C15_Witness ==
    /\ Parsed
    /\ \E m \in Range(themeVariables) :
          m.lightReference = ColorSlash \o << "r", "/", "5" >>

\* C16 (as claimed): the base variable name the alpha parser emits for a
\* reference is what convertCSSVariableToFigmaName gives for that reference.
C16_AlphaBaseIsCanonical ==
    Called("extractAlphaFunctions") =>
        \A i \in 1..Len(returned.value) :
            returned.value[i].figmaVariable
                = convertCSSVariableToFigmaName(call.matches[i].variable)

\* C17 (as claimed): turning the canonical name of a mapping back into its
\* hyphenated form gives the @theme key it came from, so the line the parser
\* looks up with it is a declaration of that key.
C17_HyphenatedInvertsCanonical ==
    Parsed =>
        \A m \in Range(themeVariables) :
            /\ m.themeMapping # 0
            /\ CanonicalOf(cssContent.theme.declarations[m.themeMapping]) = m.variableName
            /\ ThemeLinePrefix(m.variableName)
                  = << "-", "-" >> \o cssContent.theme.declarations[m.themeMapping].name

\* C20 (as claimed): every opacity the alpha parser emits is an integer from
\* 0 to 100.
C20_OpacityWithinRange ==
    Called("extractAlphaFunctions") =>
        \A i \in 1..Len(returned.value) : returned.value[i].opacity \in 0..100

(***************************************************************************)
(* Properties of the requests the theme mapper refuses                     *)
(***************************************************************************)

\* Nothing of the request's work list has been touched
NothingProcessed ==
    /\ store = trace.before
    /\ trace.processed = <<>>
    /\ trace.creates = <<>>
    /\ batch.targetId = ""

\* The request has been answered by one top-level failure: the last
\* creation-complete message is a failure without results, and it is the only
\* one when the request is the first.
OneTopLevelFailure ==
    /\ Len(CreationCompleteMessages) >= 1
    /\ Last(CreationCompleteMessages) = CreationComplete(FALSE, NoResults)
    /\ trace.n = 1 => Len(CreationCompleteMessages) = 1

\* C18: a create-variables request received while the collections have not
\* been loaded ends at once, leaves the variable store as it was and is
\* answered by a single creation-complete message with success false and no
\* results.
C18_RefusedWhenNotLoaded ==
    (plugin = ThemeMapper /\ trace.n > 0 /\ ~collectionsLoaded) =>
        /\ pc = "idle"
        /\ NothingProcessed
        /\ OneTopLevelFailure

\* C18 witness: a request with a work list has arrived before the collections
\* were loaded, in a file that holds the palette.
C18_Witness ==
    /\ plugin = ThemeMapper /\ trace.n > 0 /\ ~collectionsLoaded
    /\ Len(request.variablesToCreate) > 0
    /\ DOMAIN store # {}

\* The request names a source or a target collection the file and the
\* libraries do not hold
CollectionMissing ==
    /\ plugin = ThemeMapper /\ trace.n > 0 /\ collectionsLoaded
    /\ \/ request.selectedSourceCollectionId = "gone"
       \/ request.existingCollectionId = "gone"

\* C19: when the source or the target collection of a request cannot be
\* found, no item of the work list is processed and no variable is created or
\* updated, before and after the lookup; once the lookup has been made the
\* request is over and has been answered by exactly one top-level failure
\* message.
C19_AbortedWhenCollectionMissing ==
    CollectionMissing =>
        /\ NothingProcessed
        /\ pc \in { "loadingLibraries", "idle" }
        /\ pc = "idle" => OneTopLevelFailure
        /\ pc = "loadingLibraries" => (trace.n = 1 => CreationCompleteMessages = <<>>)

\* C19 witness: a request with a work list whose source exists and whose
\* target is gone has been answered.
C19_Witness ==
    /\ CollectionMissing /\ pc = "idle"
    /\ request.selectedSourceCollectionId # "gone"
    /\ request.existingCollectionId = "gone"
    /\ Len(request.variablesToCreate) > 0

(***************************************************************************)
(* Properties of the opacity generator's parse result                      *)
(***************************************************************************)

\* The derived name of the i-th alpha function of the text
DerivedNameOf(match) ==
    DerivedName(convertToFigmaVariableName(match.variable), ParseInt(match.opacity))

\* The records of the parse result: those of found and those of missing
ParseRecords == Last(outbox).results.found \o Last(outbox).results.missing

\* C21 (as claimed): the parse result holds exactly one record for every
\* derived name of the text, and the record carries a duplicateCount equal to
\* the number of alpha functions of the text with that derived name.
C21_DuplicatesCounted ==
    (Called("handleCSSParsing") /\ call.matches # <<>>) =>
        \A i \in 1..Len(call.matches) :
            LET name == DerivedNameOf(call.matches[i])
                records == SelectSeq(ParseRecords, LAMBDA r : r.newVariable = name)
            IN /\ Len(records) = 1
               /\ "duplicateCount" \in DOMAIN records[1]
               /\ records[1].duplicateCount =
                     Cardinality({ j \in 1..Len(call.matches) :
                                     DerivedNameOf(call.matches[j]) = name })

(***************************************************************************)
(* Properties of the theme parser on texts that lack a scope               *)
(***************************************************************************)

\* C22: when the text has no light block or no dark block, the theme parser
\* returns no mapping, whatever the @theme block holds, and the request is
\* answered by the one parsing-complete message of an empty result.
C22_NoMappingWithoutBothModes ==
    (Parsed /\ (~cssContent.light.matched \/ ~cssContent.dark.matched)) =>
        /\ themeVariables = <<>>
        /\ outbox = << ParsingComplete(FALSE, NoResults) >>

\* C22 witness: a text has been parsed whose @theme block refers to a key the
\* light block defines, and which has no dark block.
C22_Witness ==
    /\ Parsed
    /\ cssContent.theme.matched /\ cssContent.light.matched /\ ~cssContent.dark.matched
    /\ \E t \in Range(cssContent.theme.declarations) :
          Defines(cssContent.light.declarations, Trim(t.reference))

(***************************************************************************)
(* Properties of the create-or-update decision                             *)
(***************************************************************************)

\* How many lookups of name in the existing-entities snapshot found it
\* present (or absent) when they were made
Lookups(name, present) ==
    Cardinality({ i \in 1..Len(trace.lookups) :
                    trace.lookups[i] = [name |-> name, present |-> present] })

\* C23: in both plugins and every source mode, the create primitive is called
\* exactly for the lookups that found the name absent from the
\* existing-entities snapshot; every entry reported in updated answers a
\* lookup that found its name present (entries registered earlier in the
\* batch included) and every entry reported in created one that found it
\* absent, and when no item of a name failed the entries of the name are
\* exactly its lookups.
C23_UpdatedIffPresent ==
    /\ trace.n > 0 =>
          \A name \in Range(trace.creates) \cup { l.name : l \in Range(trace.lookups) } :
              Count(name, trace.creates) = Lookups(name, FALSE)
    /\ Reported =>
          \A name \in Range(Keys(Outcomes)) :
              /\ Count(name, Keys(Tally.updated)) <= Lookups(name, TRUE)
              /\ Count(name, Keys(Tally.created)) <= Lookups(name, FALSE)
              /\ Count(name, Keys(Tally.failed)) = 0 =>
                    /\ Count(name, Keys(Tally.updated)) = Lookups(name, TRUE)
                    /\ Count(name, Keys(Tally.created)) = Lookups(name, FALSE)

\* C23 witness: a request with a library source has reported a name that was
\* not in the snapshot at the start both as created and as updated.
C23_Witness ==
    /\ Reported /\ plugin = ThemeMapper /\ request.sourceCollectionType = "library"
    /\ \E name \in Range(Keys(Tally.updated)) :
          /\ name \notin trace.known
          /\ name \in Range(Keys(Tally.created))

(***************************************************************************)
(* Properties of the moment the result is sent                             *)
(***************************************************************************)

\* C24: in the theme mapper, while callbacks of imports are outstanding no
\* creation-complete message has been sent; when the message has been sent no
\* callback is outstanding, every item of the work list has its outcome in
\* the message, and created, updated and failed are still what the message
\* carries (nothing was added after it), whatever the order in which the
\* imports completed.
C24_ReportAfterAllOutcomes ==
    (plugin = ThemeMapper /\ trace.n > 0) =>
        /\ (pc = "importing" /\ DOMAIN batch.pending # {} /\ trace.n = 1) =>
              CreationCompleteMessages = <<>>
        /\ Reported =>
              /\ DOMAIN batch.pending = {}
              /\ Len(Outcomes) = Len(request.variablesToCreate)
              /\ Tally.created = batch.created
              /\ Tally.updated = batch.updated
              /\ Tally.failed = batch.failed

\* C24 witness: a request with a library source has been answered after its
\* imports completed in another order than they were issued, one of them
\* failing.
C24_Witness ==
    /\ Reported /\ plugin = ThemeMapper /\ request.sourceCollectionType = "library"
    /\ ~InWorkListOrder(Tally.created \o Tally.updated)
    /\ Tally.failed # <<>>

(***************************************************************************)
(* Properties of the modes and of the aliases written                      *)
(***************************************************************************)

\* processVariables has set up the modes of the target collection
ModesSetUp == plugin = ThemeMapper /\ trace.n > 0 /\ batch.targetId # ""

\* C30 (as claimed): the lightModeId and the darkModeId setupCollectionModes
\* returns are two different modes of the target collection, whatever modes
\* the collection had.
C30_TwoDifferentModes ==
    ModesSetUp =>
        /\ batch.lightModeId \in ModeIds(colls, batch.targetId)
        /\ batch.darkModeId \in ModeIds(colls, batch.targetId)
        /\ batch.lightModeId # batch.darkModeId

\* The alias to the source variable an entry names
AliasTo(name) == AliasValue(<< request.selectedSourceCollectionId, name >>)

\* C25 (as claimed): for every item reported in created or updated, the target
\* variable's value under the light mode is the alias to the light source
\* variable of the entry and its value under the dark mode the alias to the
\* dark one. Stated for the names that occur once in the work list, so that
\* no later item has written to the variable.
C25_AliasesPerMode ==
    (Reported /\ plugin = ThemeMapper) =>
        \A i \in 1..Len(Tally.created \o Tally.updated) :
            LET e == (Tally.created \o Tally.updated)[i]
                values == store[<< batch.targetId, e.variableName >>].valuesByMode
            IN Count(e.variableName, Keys(request.variablesToCreate)) = 1 =>
                  /\ batch.lightModeId \in DOMAIN values
                  /\ batch.darkModeId \in DOMAIN values
                  /\ values[batch.lightModeId] = AliasTo(e.lightSourceVar)
                  /\ values[batch.darkModeId] = AliasTo(e.darkSourceVar)

(***************************************************************************)
(* Properties of the order of the lookups                                  *)
(***************************************************************************)

\* The other form of a name: without color/ when it has it, with it when not
OtherPrefixForm(name) ==
    IF StartsWith(name, ColorSlash) THEN StripColorPrefix(name) ELSE ColorSlash \o name

\* C26 (as claimed): a reference whose only match in the source is its
\* color/-prefixed or its prefix-stripped form is resolved in each of the three
\* source modes: by the dataset lookup, by the local lookup and by the lookup
\* of a library without dataset.
C26_PrefixFormsResolve ==
    (Resolved /\ call.name \notin call.source
        /\ OtherPrefixForm(call.name) \in call.source) =>
            /\ returned.json # NotFound
            /\ returned.local # NotFound
            /\ returned.library # NotFound

\* The simplified form color/<last segment> of a name
SimplifiedForm(name) == ColorSlash \o LastSegment(name)

\* A result of a lookup of name that is neither the name nor one of its two
\* prefix forms: the lookup was redirected
Redirected(name, result) ==
    result \notin { NotFound, name, ColorSlash \o StripColorPrefix(name),
                    StripColorPrefix(name) }

\* C27 (as claimed): a lookup is redirected only to the simplified form
\* color/<black|white>, and only for a name whose last segment is black or
\* white and that has more than two segments; a name with one or two segments
\* is never redirected.
C27_SimplifiedOnlyForLongNames ==
    Resolved =>
        /\ Redirected(Strip100(call.name), returned.json) =>
              /\ returned.json = SimplifiedForm(Strip100(call.name))
              /\ isSteplessColor(Strip100(call.name))
              /\ SegmentCount(Strip100(call.name)) > 2
        /\ Redirected(call.name, returned.local) =>
              /\ returned.local = SimplifiedForm(call.name)
              /\ isSteplessColor(call.name)
              /\ SegmentCount(call.name) > 2

\* C28 (as claimed): when a name with more than two segments that ends in
\* black or white has no exact match, and the source holds its simplified
\* form and also its prefixed or prefix-stripped form, both lookups return
\* the simplified form.
C28_SimplifiedBeforePrefixForms ==
    (Resolved /\ call.name \notin call.source
        /\ isSteplessColor(call.name) /\ SegmentCount(call.name) > 2
        /\ SimplifiedForm(call.name) \in call.source
        /\ OtherPrefixForm(call.name) \in call.source) =>
            /\ returned.json = SimplifiedForm(call.name)
            /\ returned.local = SimplifiedForm(call.name)

(***************************************************************************)
(* Properties of the colours the opacity generator writes                  *)
(***************************************************************************)

\* The collection the request writes to: the selected one, or the one made
\* for the request
AlphaTarget ==
    IF request.selectedCollectionId \in { "", "new" } THEN Last(localOrder)
    ELSE request.selectedCollectionId

\* The value of the local variable called name under the default mode of
\* its collection
DefaultValue(name) ==
    LET id == BuildVariableMap[name]
    IN store[id].valuesByMode[colls[id[1]].defaultModeId]

\* C29: for every item the opacity generator reports in created or updated,
\* the variable of that name has, under the default mode of the target
\* collection, a colour with the red, green and blue of the base variable's
\* value and the alpha opacity / 100 (kept as its numerator, the opacity).
C29_AlphaOverridden ==
    (Reported /\ plugin = OpacityGenerator) =>
        \A e \in Range(Tally.created \o Tally.updated) :
            LET id == BuildVariableMap[e.newVariable]
                modeId == colls[AlphaTarget].defaultModeId
            IN /\ modeId \in DOMAIN store[id].valuesByMode
               /\ store[id].valuesByMode[modeId].kind = "color"
               /\ store[id].valuesByMode[modeId].rgb = DefaultValue(e.baseVariable).rgb
               /\ store[id].valuesByMode[modeId].a = e.opacity

\* C29 witness: a request has been answered with a created and an updated
\* variable.
C29_Witness ==
    /\ Reported /\ plugin = OpacityGenerator
    /\ Tally.created # <<>>
    /\ Tally.updated # <<>>

(***************************************************************************)
(* Properties of the loading of the collections                            *)
(***************************************************************************)

\* C31 (as claimed): once a collections-loaded message with success true has
\* been posted the collectionsLoaded flag is true (it is the flag a later
\* create-variables request is refused by when false).
C31_LoadedAfterSuccessMessage ==
    (plugin = ThemeMapper
        /\ \E i \in 1..Len(outbox) : outbox[i] = CollectionsLoadedMessage(TRUE)) =>
            collectionsLoaded

(***************************************************************************)
(* Properties of overlapping requests                                      *)
(***************************************************************************)

\* The callback of the first request leaves the lookup of the collections
\* for the reconciliation of a library source
Reconciles ==
    /\ pc = "loadingLibraries"
    /\ request.sourceCollectionType = "library"
    /\ pc' \in { "fetchingLibraryVariables", "importing" }

\* C32 (as claimed): the request is reconciled against the jsonData of its own
\* message: it asks the library for its variables exactly when its own
\* message carried no jsonData, whatever message arrived in between.
C32_OwnDataset ==
    [][Reconciles => ((pc' = "fetchingLibraryVariables") <=> (request.jsonData = NoJson))]_vars


(***************************************************************************)
(* Properties of what the result says of the entities                      *)
(***************************************************************************)

\* The collection the request writes to
TargetOfRequest ==
    IF plugin = ThemeMapper THEN request.existingCollectionId
    ELSE IF request.selectedCollectionId \in { "", "new" } THEN Last(localOrder)
    ELSE request.selectedCollectionId

\* The entities of the target collection that were not there when the
\* request started
NewEntities ==
    { id \in (DOMAIN store) \ (DOMAIN trace.before) : id[1] = TargetOfRequest }

\* C33 (as claimed): in both plugins, every path and every import outcome,
\* when the result is reported every entity the batch created in the target
\* collection is named by an entry of created, and every createVariable call
\* that returned has its entry in created, so that no item reported in failed
\* has caused an entity to be created.
C33_CreatedListsEveryNewEntity ==
    Reported =>
        /\ \A id \in NewEntities : id[2] \in Range(Keys(Tally.created))
        /\ \A n \in Range(trace.creates) :
              Count(n, trace.creates) - Count(n, ThrownCreates) <=
                  Count(n, Keys(Tally.created))


\* C34 (as claimed): when the result is reported, the variables of the other
\* collections are what they were when the request started and every new
\* variable is in the target collection (values are written on entities of
\* the target collection only), and every lookup that found a name present,
\* selecting the existing entity for the update, selected an entity of the
\* target collection.
C34_OnlyTargetCollection ==
    Reported =>
        /\ \A id \in DOMAIN store :
              id[1] # TargetOfRequest =>
                  /\ id \in DOMAIN trace.before
                  /\ store[id] = trace.before[id]
        /\ \A i \in 1..Len(trace.lookups) :
              trace.lookups[i].present =>
                  << TargetOfRequest, trace.lookups[i].name >> \in DOMAIN store


(***************************************************************************)
(* Properties of the two parsers taken together                            *)
(***************************************************************************)

\* The name the opacity generator derives for --alpha(var(--b) / p%), where
\* d is the definition of the theme text that holds the function
AlphaNameFor(d) ==
    DerivedName(convertToFigmaVariableName(<< "-", "-" >> \o Trim(d.reference)),
                ParseInt(d.opacity))

\* C35 (as claimed): for every definition of a mode block whose value is
\* --alpha(var(--b) / p%), the canonical name of the reference the theme
\* parser stores for it is the name the opacity generator derives from the
\* same function.
C35_ReferenceIsDerivedName ==
    Called("parseVariableDefinitions") =>
        \A e \in Range(returned.value) :
            LET d == LastDefinition(call.cssBlock, e.key)
            IN d.opacity # <<>> =>
                  convertCSSVariableToFigmaName(e.value) = AlphaNameFor(d)


(***************************************************************************)
(* Properties of the imported variables and of closing                     *)
(***************************************************************************)

\* The ids of the variables imported during the load
ImportedDuringLoad ==
    UNION { Range(loading.libs[k].importedVariableIds) : k \in DOMAIN loading.libs }

\* The load has ended with its collections-loaded message, every write of
\* clientStorage it made has been stored, and no cleanup has started
LoadedAndStored ==
    /\ loading.pc = "done" /\ collectionsLoaded
    /\ clientStorage.writes = {} /\ ~clientStorage.rejected
    /\ cleanup.pc = "none"

\* C36 (as claimed): after the collections have been loaded, with any number
\* of library collections processed concurrently, the importedVariableIds
\* stored in clientStorage hold the id of every variable imported during the
\* load.
C36_StoredIdsComplete ==
    LoadedAndStored => ImportedDuringLoad \subseteq Range(clientStorage.ids)

\* No step of the cleanup routine is outstanding: the read of clientStorage
\* has been answered and the write that clears the list has settled
CleanupSettled ==
    /\ cleanup.pc \notin { "reading", "clearing" }
    /\ ~\E w \in clientStorage.writes : w.by = "cleanup"

====
